---- MODULE Spec2Model ----
(***************************************************************************)
(* Definition cache, catalog gateway and season resolver of                *)
(* src/src/buildCrafting.js and src/src/manifest.js, as a state machine.   *)
(*                                                                         *)
(* Every exported function of buildCrafting.js is an async function.  A    *)
(* call runs synchronously up to its first pending await, is suspended     *)
(* while a Gateway request is outstanding and is resumed by the event      *)
(* loop.  A task is one top-level call; a frame is one loadDefinitions /   *)
(* getCurrentSeasonHash invocation the task is awaiting.  Actions are the  *)
(* synchronous stretches between two awaits.                               *)
(***************************************************************************)
EXTENDS Integers, Sequences, FiniteSets, TLC

(***************************************************************************)
(* Bounds of the model.                                                    *)
(***************************************************************************)
NumTasks == 2
MaxNow == 1
MaxFailures == 2
MaxSeasons == 2
MaxItems == 2
MaxArgs == 3

(***************************************************************************)
(* JavaScript null / undefined, and a present value, as sequences of       *)
(* length 0 and 1.                                                         *)
(***************************************************************************)
Null == << >>
Some(v) == << v >>
IsNull(x) == Len(x) = 0
Val(x) == x[1]

(***************************************************************************)
(* The definition tables the program asks for.                             *)
(***************************************************************************)
StatTable == "DestinyStatDefinition"
PerkTable == "DestinySandboxPerkDefinition"
DamageTable == "DestinyDamageTypeDefinition"
SeasonTable == "DestinySeasonDefinition"
ItemTable == "DestinyInventoryItemDefinition"
Tables == {StatTable, PerkTable, DamageTable, SeasonTable, ItemTable}

IndexResource == "/Destiny2/Manifest/"
Resources == Tables \cup {IndexResource}

Tasks == 1 .. NumTasks
MainTask == 1

(***************************************************************************)
(* Errors thrown by the code, named as in spec section 7.                  *)
(***************************************************************************)
NetworkError == "NetworkError"
LocaleNotFound == "NotFoundError: locale"
TableNotFound == "NotFoundError: table"
SeasonResolutionError == "SeasonResolutionError"
IsNotFound(e) == e \in {LocaleNotFound, TableNotFound}

VARIABLES
  manifestCache,        \* Null or Some(manifest)
  definitionsCache,     \* table name -> Null or Some(table)
  currentSeasonHash,    \* Null or Some(hash)
  currentSeasonName,    \* Null or a name
  currentSeasonNumber,  \* Null or Some(seasonNumber)
  now,                  \* the clock read by new Date()
  gateway,              \* what the remote API serves: the index, the season and item tables
  tasks,                \* task -> the top-level call it runs
  fetches,              \* resource -> Gateway requests issued since the last clearCache
  failures,             \* Gateway requests that have failed so far
  stored,               \* resource -> responses stored in the cache since the last clearCache
  selections,           \* times a current season was selected since the last clearCache
  returned,             \* (operation, value) pairs the season getters returned since then
  lastStep              \* << the step taken last, the task that took it (0: none) >>

vars == << manifestCache, definitionsCache, currentSeasonHash, currentSeasonName,
           currentSeasonNumber, now, gateway, tasks, fetches, failures,
           stored, selections, returned, lastStep >>

cacheVars == << manifestCache, definitionsCache >>
seasonVars == << currentSeasonHash, currentSeasonName, currentSeasonNumber >>

(***************************************************************************)
(* Season records.  A timestamp is absent (Null) or Some(t); a display     *)
(* name is absent (Null) or a non-empty string, modelled as a tuple.       *)
(* Object.values() of the season table lists the records by ascending      *)
(* hash (integer-like keys), so a table is a sequence whose i-th record    *)
(* has hash i.                                                             *)
(***************************************************************************)
Season(h, n, s, e, nm) ==
  [hash |-> h, seasonNumber |-> n, startDate |-> s, endDate |-> e, name |-> nm]

DisplayName(h) == << "name", h >>
SeasonN(n) == << "Season", n >>

(***************************************************************************)
(* JavaScript truthiness of the values the code tests.                     *)
(***************************************************************************)
Truthy(cached) == ~IsNull(cached)

(***************************************************************************)
(* getDefinitionPath(manifest, tableName, locale = 'en'): the error it     *)
(* throws, or Null when it returns the path.                               *)
(***************************************************************************)
getDefinitionPathIgnoresMissing(manifest, tableName) == Null
getDefinitionPath(manifest, tableName) ==
  IF ~manifest.en THEN Some(LocaleNotFound)
  ELSE IF tableName \notin manifest.paths THEN Some(TableNotFound)
  ELSE Null

(***************************************************************************)
(* JavaScript strings are sequences of characters, so that toLowerCase,    *)
(* includes, startsWith and === are computed on the characters.            *)
(***************************************************************************)
EmptyString == << >>
UpperCase == << "A", "B", "C", "D", "E", "F", "G", "H", "I", "J", "K", "L", "M",
               "N", "O", "P", "Q", "R", "S", "T", "U", "V", "W", "X", "Y", "Z" >>
LowerCase == << "a", "b", "c", "d", "e", "f", "g", "h", "i", "j", "k", "l", "m",
               "n", "o", "p", "q", "r", "s", "t", "u", "v", "w", "x", "y", "z" >>
lowerChar(c) ==
  IF \E i \in DOMAIN UpperCase : UpperCase[i] = c
  THEN LowerCase[CHOOSE i \in DOMAIN UpperCase : UpperCase[i] = c]
  ELSE c
stringToLowerCase(s) == [i \in 1 .. Len(s) |-> lowerChar(s[i])]
stringStartsWith(s, pattern) ==
  Len(pattern) <= Len(s) /\ SubSeq(s, 1, Len(pattern)) = pattern
stringIncludes(s, pattern) ==
  \E i \in 0 .. (Len(s) - Len(pattern)) : SubSeq(s, i + 1, i + Len(pattern)) = pattern

\* The string literals the classifiers match against.
str_aspect == << "a", "s", "p", "e", "c", "t" >>
str_fragment == << "f", "r", "a", "g", "m", "e", "n", "t" >>
str_grenades == << "g", "r", "e", "n", "a", "d", "e", "s" >>
str_melee == << "m", "e", "l", "e", "e" >>
str_class_abilities == << "c", "l", "a", "s", "s", "_", "a", "b", "i", "l", "i", "t", "i", "e", "s" >>
str_super == << "s", "u", "p", "e", "r" >>
str_v400_plugs_abilities == << "v", "4", "0", "0", ".", "p", "l", "u", "g", "s", ".", "a", "b", "i", "l", "i", "t", "i", "e", "s" >>
str_seasonal_artifact == << "s", "e", "a", "s", "o", "n", "a", "l", "_", "a", "r", "t", "i", "f", "a", "c", "t" >>
str_artifact_perk == << "a", "r", "t", "i", "f", "a", "c", "t", "_", "p", "e", "r", "k" >>
str_artifact == << "a", "r", "t", "i", "f", "a", "c", "t" >>
str_anti_barrier == << "a", "n", "t", "i", "-", "b", "a", "r", "r", "i", "e", "r" >>
str_overload == << "o", "v", "e", "r", "l", "o", "a", "d" >>
str_unstoppable == << "u", "n", "s", "t", "o", "p", "p", "a", "b", "l", "e" >>
str_pierce_barrier == << "p", "i", "e", "r", "c", "e", " ", "b", "a", "r", "r", "i", "e", "r" >>
str_disrupt_overload == << "d", "i", "s", "r", "u", "p", "t", " ", "o", "v", "e", "r", "l", "o", "a", "d" >>
str_stagger_unstoppable == << "s", "t", "a", "g", "g", "e", "r", " ", "u", "n", "s", "t", "o", "p", "p", "a", "b", "l", "e" >>

\* championPatterns of getChampionMods
championPatterns ==
  << str_anti_barrier, str_overload, str_unstoppable,
     str_pierce_barrier, str_disrupt_overload, str_stagger_unstoppable >>

\* Strings found in item definitions: plug category identifiers, item type
\* display names, display names and descriptions.
txt_Subclass_Aspects == << "S", "u", "b", "c", "l", "a", "s", "s", ".", "A", "s", "p", "e", "c", "t", "s" >>
txt_shared_fragments == << "s", "h", "a", "r", "e", "d", ".", "f", "r", "a", "g", "m", "e", "n", "t", "s" >>
txt_V400_Plugs_Abilities == << "V", "4", "0", "0", ".", "P", "l", "u", "g", "s", ".", "A", "b", "i", "l", "i", "t", "i", "e", "s" >>
txt_Artifact_Perk == << "a", "r", "t", "i", "f", "a", "c", "t", "_", "p", "e", "r", "k", "_", "e", "p", "i", "s", "o", "d", "e", "1" >>
txt_enhancements_v2 == << "e", "n", "h", "a", "n", "c", "e", "m", "e", "n", "t", "s", ".", "v", "2", "_", "g", "e", "n", "e", "r", "a", "l" >>
txt_Aspect == << "A", "s", "p", "e", "c", "t" >>
txt_Fragment == << "F", "r", "a", "g", "m", "e", "n", "t" >>
txt_Artifact_Mod == << "A", "r", "t", "i", "f", "a", "c", "t", " ", "M", "o", "d" >>
txt_Auto_Rifle == << "A", "u", "t", "o", " ", "R", "i", "f", "l", "e" >>
txt_Fragmentation_Grenade == << "F", "r", "a", "g", "m", "e", "n", "t", "a", "t", "i", "o", "n", " ", "G", "r", "e", "n", "a", "d", "e" >>
txt_Anti_Barrier_Rifle == << "A", "n", "t", "i", "-", "B", "a", "r", "r", "i", "e", "r", " ", "R", "i", "f", "l", "e" >>
txt_Aspect_of_Power == << "A", "s", "p", "e", "c", "t", " ", "o", "f", " ", "P", "o", "w", "e", "r" >>
txt_X == << "X" >>
txt_Stuns_Overload == << "S", "t", "u", "n", "s", " ", "O", "v", "e", "r", "l", "o", "a", "d", " ", "C", "h", "a", "m", "p", "i", "o", "n", "s" >>

(***************************************************************************)
(* Evaluation of JavaScript expressions.  A property value is absent       *)
(* (undefined / null: Null) or Some(v); an object is a function from its   *)
(* keys to property values.  An expression completes with a value or       *)
(* throws a TypeError: the read of a property of null / undefined.         *)
(***************************************************************************)
TypeError == "TypeError"
Ok(v) == [thrown |-> FALSE, value |-> v]
Throw == [thrown |-> TRUE, value |-> Null]
\* c; d
Then(c, d) == IF c.thrown THEN c ELSE d

\* object[key]
Prop(object, key) == IF key \in DOMAIN object THEN object[key] ELSE Null
\* table[hash], where hash may itself be undefined
Lookup(table, hash) ==
  IF ~IsNull(hash) /\ Val(hash) \in DOMAIN table THEN Some(table[Val(hash)]) ELSE Null
\* c.key
Dot(c, key) ==
  IF c.thrown THEN c
  ELSE IF IsNull(c.value) THEN Throw
  ELSE Ok(Prop(Val(c.value), key))
\* c?.key
OptDot(c, key) ==
  IF c.thrown THEN c
  ELSE IF IsNull(c.value) THEN Ok(Null)
  ELSE Ok(Prop(Val(c.value), key))
\* c?.toLowerCase()
OptToLowerCase(c) ==
  IF c.thrown THEN c
  ELSE IF IsNull(c.value) THEN Ok(Null)
  ELSE Ok(Some(stringToLowerCase(Val(c.value))))
\* !s for a string or undefined
FalsyString(s) == IsNull(s) \/ Val(s) = EmptyString
\* !n for a number or undefined
FalsyNumber(n) == IsNull(n) \/ Val(n) = 0
\* !b for a boolean or undefined
FalsyBoolean(b) == IsNull(b) \/ ~Val(b)
\* c || ''
OrEmptyString(c) ==
  IF c.thrown THEN c
  ELSE IF FalsyString(c.value) THEN Ok(Some(EmptyString))
  ELSE c
\* n || d
NumberOr(n, d) == IF FalsyNumber(n) THEN d ELSE Val(n)
\* a || b, for conditions
Or(a, b) == IF a.thrown THEN a ELSE IF a.value THEN a ELSE b
\* c.includes(pattern), c.startsWith(pattern), c === pattern
includes(c, pattern) ==
  IF c.thrown THEN c
  ELSE IF IsNull(c.value) THEN Throw
  ELSE Ok(stringIncludes(Val(c.value), pattern))
startsWith(c, pattern) ==
  IF c.thrown THEN c
  ELSE IF IsNull(c.value) THEN Throw
  ELSE Ok(stringStartsWith(Val(c.value), pattern))
strictEquals(c, pattern) ==
  IF c.thrown THEN c ELSE Ok(c.value = Some(pattern))

\* { ...object, key: value }
Spread(object, key, value) ==
  [k \in DOMAIN object \cup {key} |-> IF k = key THEN value ELSE object[k]]

\* Array.prototype.filter with a predicate that may throw.
RECURSIVE Keep(_, _)
Keep(items, flags) ==
  IF Len(items) = 0 THEN << >>
  ELSE (IF Head(flags) THEN << Head(items) >> ELSE << >>)
         \o Keep(Tail(items), Tail(flags))

filter(items, P(_)) ==
  LET outcomes == [i \in 1 .. Len(items) |-> P(items[i])]
  IN  IF \E i \in 1 .. Len(items) : outcomes[i].thrown THEN Throw
      ELSE Ok(Keep(items, [i \in 1 .. Len(items) |-> outcomes[i].value]))

\* Array.prototype.map with a function that may throw.
map(items, F(_)) ==
  LET outcomes == [i \in 1 .. Len(items) |-> F(items[i])]
  IN  IF \E i \in 1 .. Len(items) : outcomes[i].thrown THEN Throw
      ELSE Ok([i \in 1 .. Len(items) |-> outcomes[i].value])

(***************************************************************************)
(* ITEM_CATEGORIES                                                         *)
(***************************************************************************)
WEAPON == 1
ARMOR == 20
ARMOR_MODS == 59
SUBCLASS == 1403

(***************************************************************************)
(* The string fields the classifiers read, lower-cased, '' when absent.    *)
(***************************************************************************)
\* item.plug.plugCategoryIdentifier?.toLowerCase() || '': no `?.` after plug
plugCatUnguarded(item) ==
  OrEmptyString(OptToLowerCase(Dot(Ok(Prop(item, "plug")), "plugCategoryIdentifier")))
\* item.plug?.plugCategoryIdentifier?.toLowerCase() || ''
plugCatOf(item) ==
  OrEmptyString(OptToLowerCase(OptDot(Ok(Prop(item, "plug")), "plugCategoryIdentifier")))
\* item.itemTypeDisplayName?.toLowerCase() || ''
itemTypeOf(item) ==
  OrEmptyString(OptToLowerCase(Ok(Prop(item, "itemTypeDisplayName"))))
\* item.displayProperties?.name
displayNameOf(item) == OptDot(Ok(Prop(item, "displayProperties")), "name")
\* item.displayProperties?.name?.toLowerCase() || ''
lowerNameOf(item) == OrEmptyString(OptToLowerCase(displayNameOf(item)))
\* item.displayProperties?.description?.toLowerCase() || ''
lowerDescriptionOf(item) ==
  OrEmptyString(OptToLowerCase(OptDot(Ok(Prop(item, "displayProperties")), "description")))

(***************************************************************************)
(* filterByCategory                                                        *)
(***************************************************************************)
\* A category test that only looks for the presence of the hash list.
inCategoryAny(item, categoryHash) ==
  Ok(~IsNull(Prop(item, "itemCategoryHashes")))
\* item.itemCategoryHashes && item.itemCategoryHashes.includes(categoryHash)
inCategory(item, categoryHash) ==
  LET hashes == Prop(item, "itemCategoryHashes")
  IN  IF IsNull(hashes) THEN Ok(FALSE) ELSE Ok(categoryHash \in Val(hashes))

filterByCategory(items, categoryHash) ==
  filter(items, LAMBDA item : inCategory(item, categoryHash))

(***************************************************************************)
(* filterUsableItems(items, allowNonEquippable = false)                    *)
(***************************************************************************)
\* A usability test that does not look at the display name.
isUsableUnnamed(item, allowNonEquippable) ==
  IF Prop(item, "redacted") = Some(TRUE) THEN Ok(FALSE)
  ELSE IF ~allowNonEquippable /\ Prop(item, "equippable") = Some(FALSE) THEN Ok(FALSE)
  ELSE Ok(TRUE)
isUsable(item, allowNonEquippable) ==
  IF Prop(item, "redacted") = Some(TRUE) THEN Ok(FALSE)
  ELSE IF ~allowNonEquippable /\ Prop(item, "equippable") = Some(FALSE) THEN Ok(FALSE)
  ELSE LET name == displayNameOf(item)
       IN  Then(name, Ok(~FalsyString(name.value)))

\* A usability filter that returns the usable items last item first.
filterUsableItemsReversed(items, allowNonEquippable) ==
  LET kept == filter(items, LAMBDA item : isUsable(item, allowNonEquippable))
  IN  IF kept.thrown THEN kept
      ELSE Ok([i \in 1 .. Len(kept.value) |-> kept.value[Len(kept.value) + 1 - i]])
filterUsableItems(items, allowNonEquippable) ==
  filter(items, LAMBDA item : isUsable(item, allowNonEquippable))

\* filterUsableItems applied to the outcome of a classifier
usable(c, allowNonEquippable) ==
  IF c.thrown THEN c ELSE filterUsableItems(c.value, allowNonEquippable)

(***************************************************************************)
(* filterByCurrentSeason(items, seasonHash)                                *)
(***************************************************************************)
\* item.seasonHash === seasonHash alone
inSeasonWithoutTruthyTest(item, seasonHash) ==
  Ok(Prop(item, "seasonHash") = seasonHash)
\* item.seasonHash && item.seasonHash === seasonHash
inSeason(item, seasonHash) ==
  Ok(~FalsyNumber(Prop(item, "seasonHash")) /\ Prop(item, "seasonHash") = seasonHash)

filterByCurrentSeason(items, seasonHash) ==
  filter(items, LAMBDA item : inSeason(item, seasonHash))

(***************************************************************************)
(* getSeasonHashToNumberMap and filterUpToCurrentSeason (an earlier        *)
(* version of buildCrafting.js).                                           *)
(***************************************************************************)
\* season.hash && season.seasonNumber !== undefined: the seasons entered
getSeasonHashToNumberMap(seasons) ==
  LET entered == {i \in 1 .. Len(seasons) : seasons[i].hash # 0}
  IN  [h \in {seasons[i].hash : i \in entered} |->
         seasons[CHOOSE i \in entered :
                   /\ seasons[i].hash = h
                   /\ \A j \in entered : seasons[j].hash = h => j <= i].seasonNumber]

\* A filter that drops the items whose season is not in the map.
upToSeasonKnownOnly(item, currentNumber, seasonHashToNumberMap) ==
  IF ~FalsyBoolean(Prop(item, "redacted")) THEN Ok(FALSE)
  ELSE IF FalsyNumber(Prop(item, "seasonHash")) THEN Ok(TRUE)
  ELSE IF Val(Prop(item, "seasonHash")) \notin DOMAIN seasonHashToNumberMap THEN Ok(FALSE)
  ELSE Ok(seasonHashToNumberMap[Val(Prop(item, "seasonHash"))] <= currentNumber)
upToSeason(item, currentNumber, seasonHashToNumberMap) ==
  IF ~FalsyBoolean(Prop(item, "redacted")) THEN Ok(FALSE)
  ELSE IF FalsyNumber(Prop(item, "seasonHash")) THEN Ok(TRUE)
  ELSE IF Val(Prop(item, "seasonHash")) \notin DOMAIN seasonHashToNumberMap THEN Ok(TRUE)
  ELSE Ok(seasonHashToNumberMap[Val(Prop(item, "seasonHash"))] <= currentNumber)

filterUpToCurrentSeason(items, currentNumber, seasonHashToNumberMap) ==
  filter(items, LAMBDA item : upToSeason(item, currentNumber, seasonHashToNumberMap))

(***************************************************************************)
(* The classifiers of getSubclassItems, getArtifactMods, getChampionMods.  *)
(***************************************************************************)
isAspect(item) ==
  LET plugCat == plugCatOf(item)
      itemType == itemTypeOf(item)
  IN  Then(plugCat, Then(itemType,
        Or(includes(plugCat, str_aspect), strictEquals(itemType, str_aspect))))

\* A fragment test that also matches on the display name.
isFragmentByName(item) ==
  LET plugCat == plugCatOf(item)
      itemType == itemTypeOf(item)
      name == lowerNameOf(item)
  IN  Then(plugCat, Then(itemType, Then(name,
        Or(includes(plugCat, str_fragment),
        Or(strictEquals(itemType, str_fragment), includes(name, str_fragment))))))
isFragment(item) ==
  LET plugCat == plugCatOf(item)
      itemType == itemTypeOf(item)
  IN  Then(plugCat, Then(itemType,
        Or(includes(plugCat, str_fragment), strictEquals(itemType, str_fragment))))

isAbility(item) ==
  LET plugCat == plugCatOf(item)
  IN  Then(plugCat,
        Or(includes(plugCat, str_grenades),
        Or(includes(plugCat, str_melee),
        Or(includes(plugCat, str_class_abilities),
        Or(includes(plugCat, str_super),
           includes(plugCat, str_v400_plugs_abilities))))))

isArtifactMod(item) ==
  IF IsNull(Prop(item, "plug")) THEN Ok(FALSE)
  ELSE LET name == displayNameOf(item)
       IN  Then(name,
             IF FalsyString(name.value) THEN Ok(FALSE)
             ELSE LET plugCat == OrEmptyString(OptToLowerCase(
                                   Dot(Ok(Prop(item, "plug")), "plugCategoryIdentifier")))
                      itemType == itemTypeOf(item)
                  IN  Then(plugCat, Then(itemType,
                        Or(includes(plugCat, str_seasonal_artifact),
                        Or(includes(plugCat, str_artifact_perk),
                        Or(startsWith(plugCat, str_artifact),
                           includes(itemType, str_artifact)))))))

isChampionMod(item) ==
  IF IsNull(Prop(item, "plug")) THEN Ok(FALSE)
  ELSE IF ~inCategory(item, ARMOR_MODS).value THEN Ok(FALSE)
  ELSE LET name == lowerNameOf(item)
           description == lowerDescriptionOf(item)
       IN  Then(name, Then(description,
             Ok(\E i \in DOMAIN championPatterns :
                  \/ stringIncludes(Val(name.value), championPatterns[i])
                  \/ stringIncludes(Val(description.value), championPatterns[i]))))

(***************************************************************************)
(* The category functions, from the item table each has loaded             *)
(* (Object.values(items): the items in key order).                         *)
(***************************************************************************)
getWeapons(items) == usable(filterByCategory(items, WEAPON), FALSE)
getArmor(items) == usable(filterByCategory(items, ARMOR), FALSE)

\* An armor-mod bucket that demands equippable items.
getArmorModsEquippableOnly(items) == usable(filterByCategory(items, ARMOR_MODS), FALSE)
getArmorMods(items) == usable(filterByCategory(items, ARMOR_MODS), TRUE)

getSubclassItems(items) ==
  LET subclassItems == filterByCategory(items, SUBCLASS)
      aspects == filter(items, isAspect)
      fragments == filter(items, isFragment)
      abilities == filter(items, isAbility)
      usableSubclasses == usable(subclassItems, FALSE)
      usableAspects == usable(aspects, TRUE)
      usableFragments == usable(fragments, TRUE)
      usableAbilities == usable(abilities, TRUE)
  IN  Then(usableSubclasses, Then(usableAspects, Then(usableFragments, Then(usableAbilities,
        Ok([subclasses |-> usableSubclasses.value,
            aspects |-> usableAspects.value,
            fragments |-> usableFragments.value,
            abilities |-> usableAbilities.value])))))

getArtifactMods(items) == usable(filter(items, isArtifactMod), TRUE)
getChampionMods(items) == usable(filter(items, isChampionMod), TRUE)

\* dt.displayProperties && dt.displayProperties.name
getDamageTypes(damageTypeDefs) ==
  filter(damageTypeDefs,
         LAMBDA dt : Ok(~IsNull(Prop(dt, "displayProperties"))
                        /\ ~IsNull(Prop(Val(Prop(dt, "displayProperties")), "name"))))

(***************************************************************************)
(* The stat, perk and damage-type tables the Gateway serves.  A table is a *)
(* function from hashes to definitions; display names of definitions are   *)
(* tuples, as for seasons.                                                 *)
(***************************************************************************)
Unknown(hash) == << "Unknown_", hash >>
IconUrl(icon) == << "https://www.bungie.net", icon >>

StatDefs ==
  << [displayProperties |-> Some([name |-> Some(DisplayName(1)),
                                  description |-> Some(<< "description", 1 >>)])],
     [displayProperties |-> Null] >>
PerkDefs ==
  << [displayProperties |-> Some([name |-> Some(DisplayName(1)),
                                  description |-> Null,
                                  icon |-> Some(<< "icon", 1 >>)]),
      isDisplayable |-> Some(TRUE)],
     [displayProperties |-> Null, isDisplayable |-> Null] >>
DamageTypeDefs ==
  << [displayProperties |-> Some([name |-> Some(DisplayName(1)), description |-> Null]),
      enumValue |-> Some(1)],
     [displayProperties |-> Null, enumValue |-> Some(2)] >>

(***************************************************************************)
(* enrichItemWithStats(item, statDefs)                                     *)
(***************************************************************************)
\* A stat record that leaves the name empty when the table has none.
enrichedStatUnnamed(statHash, statData, statDefs) ==
  LET statDef == Lookup(statDefs, Some(statHash))
      name == OptDot(OptDot(Ok(statDef), "displayProperties"), "name").value
  IN  [hash |-> statHash,
       name |-> IF FalsyString(name) THEN EmptyString ELSE Val(name),
       description |-> EmptyString,
       value |-> NumberOr(Prop(statData, "value"), 0),
       minimum |-> NumberOr(Prop(statData, "minimum"), 0),
       maximum |-> NumberOr(Prop(statData, "maximum"), 100),
       displayMaximum |-> Prop(statData, "displayMaximum")]
enrichedStat(statHash, statData, statDefs) ==
  LET statDef == Lookup(statDefs, Some(statHash))
      name == OptDot(OptDot(Ok(statDef), "displayProperties"), "name").value
      description == OptDot(OptDot(Ok(statDef), "displayProperties"), "description").value
  IN  [hash |-> statHash,
       name |-> IF FalsyString(name) THEN Unknown(statHash) ELSE Val(name),
       description |-> IF IsNull(description) THEN EmptyString ELSE Val(description),
       value |-> NumberOr(Prop(statData, "value"), 0),
       minimum |-> NumberOr(Prop(statData, "minimum"), 0),
       maximum |-> NumberOr(Prop(statData, "maximum"), 100),
       displayMaximum |-> Prop(statData, "displayMaximum")]

enrichItemWithStats(item, statDefs) ==
  LET stats == Prop(item, "stats")
  IN  IF IsNull(stats) THEN Ok(item)
      ELSE LET inner == Dot(Ok(stats), "stats")
           IN  Then(inner,
                 IF IsNull(inner.value) THEN Ok(item)
                 ELSE Ok(Spread(item, "enrichedStats",
                           Some([h \in DOMAIN Val(inner.value) |->
                                   enrichedStat(h, Val(inner.value)[h], statDefs)]))))

(***************************************************************************)
(* enrichItemWithPerks(item, perkDefs, damageTypeDefs)                     *)
(***************************************************************************)
enrichedPerk(perk, perkDefs) ==
  LET perkHash == Prop(perk, "perkHash")
      perkDef == Ok(Lookup(perkDefs, perkHash))
      name == OptDot(Dot(perkDef, "displayProperties"), "name").value
      description == OptDot(Dot(perkDef, "displayProperties"), "description").value
      icon == OptDot(Dot(perkDef, "displayProperties"), "icon").value
      isDisplayable == Dot(perkDef, "isDisplayable").value
  IN  [hash |-> perkHash,
       name |-> IF FalsyString(name) THEN Unknown(Val(perkHash)) ELSE Val(name),
       description |-> IF IsNull(description) THEN EmptyString ELSE Val(description),
       icon |-> IF FalsyString(icon) THEN EmptyString ELSE IconUrl(Val(icon)),
       isDisplayable |-> ~FalsyBoolean(isDisplayable)]

\* A perk list that resolves every reference, found in the table or not,
\* last perk first.
enrichedPerksReversed(item, perkDefs) ==
  LET perks == Prop(item, "perks")
  IN  IF IsNull(perks) THEN << >>
      ELSE [i \in 1 .. Len(Val(perks)) |->
              [hash |-> Prop(Val(perks)[Len(Val(perks)) + 1 - i], "perkHash"),
               name |-> EmptyString, description |-> EmptyString, icon |-> EmptyString,
               isDisplayable |-> FALSE]]
enrichedPerksOf(item, perkDefs) ==
  LET perks == Prop(item, "perks")
  IN  IF IsNull(perks) \/ ~(Len(Val(perks)) > 0) THEN << >>
      ELSE LET defined == SelectSeq(Val(perks),
                            LAMBDA perk : ~IsNull(Lookup(perkDefs, Prop(perk, "perkHash"))))
           IN  [i \in 1 .. Len(defined) |-> enrichedPerk(defined[i], perkDefs)]

enrichedSocketsOf(item) ==
  LET sockets == Prop(item, "sockets")
      entries == IF IsNull(sockets) THEN Null ELSE Prop(Val(sockets), "socketEntries")
  IN  IF IsNull(entries) THEN << >>
      ELSE LET populated == SelectSeq(Val(entries),
                              LAMBDA socket : ~FalsyNumber(Prop(socket, "singleInitialItemHash")))
           IN  [i \in 1 .. Len(populated) |->
                  [socketTypeHash |-> Prop(populated[i], "socketTypeHash"),
                   singleInitialItemHash |-> Prop(populated[i], "singleInitialItemHash"),
                   reusablePlugSetHash |-> Prop(populated[i], "reusablePlugSetHash")]]

enrichedDamageTypeOf(item, damageTypeDefs) ==
  LET damageType == Prop(item, "defaultDamageType")
      damageTypeDef == IF FalsyNumber(damageType) THEN Null
                       ELSE Lookup(damageTypeDefs, damageType)
  IN  IF IsNull(damageTypeDef) THEN Null
      ELSE LET name == OptDot(Dot(Ok(damageTypeDef), "displayProperties"), "name").value
               description ==
                 OptDot(Dot(Ok(damageTypeDef), "displayProperties"), "description").value
           IN  Some([hash |-> damageType,
                     name |-> IF FalsyString(name) THEN Unknown(Val(damageType)) ELSE Val(name),
                     description |-> IF IsNull(description) THEN EmptyString
                                     ELSE Val(description),
                     enumValue |-> Prop(Val(damageTypeDef), "enumValue")])

enrichItemWithPerks(item, perkDefs, damageTypeDefs) ==
  Ok(Spread(Spread(Spread(item,
       "enrichedPerks", Some(enrichedPerksOf(item, perkDefs))),
       "enrichedSockets", Some(enrichedSocketsOf(item))),
       "enrichedDamageType", enrichedDamageTypeOf(item, damageTypeDefs)))

\* items.map(item => enrichItemWithPerks(enrichItemWithStats(item, ...), ...))
enrichAll(items, statDefs, perkDefs, damageTypeDefs) ==
  map(items, LAMBDA item :
        LET enriched == enrichItemWithStats(item, statDefs)
        IN  Then(enriched, enrichItemWithPerks(enriched.value, perkDefs, damageTypeDefs)))

(***************************************************************************)
(* csvExport.js: resolveStatName(statHash, statDefs = null).  A stat hash  *)
(* is a number or a string of digits; the keys of STAT_HASHES and of the   *)
(* stat table are strings.                                                 *)
(***************************************************************************)
Digits == << "0", "1", "2", "3", "4", "5", "6", "7", "8", "9" >>
\* String(statHash)
RECURSIVE NumberToString(_)
NumberToString(n) ==
  IF n < 10 THEN << Digits[n + 1] >>
  ELSE NumberToString(n \div 10) \o << Digits[(n % 10) + 1] >>
\* A JavaScript number, told apart from a string (a sequence of characters).
NumberValue(n) == << "number", n >>
IsNumber(x) == Len(x) = 2 /\ x[1] = "number"
String(x) == IF IsNumber(x) THEN NumberToString(x[2]) ELSE x

STAT_HASHES ==
     (<< "2", "9", "9", "6", "1", "4", "6", "9", "7", "5" >> :> << "M", "o", "b", "i", "l", "i", "t", "y" >>)
  @@ (<< "3", "9", "2", "7", "6", "7", "0", "8", "7" >> :> << "R", "e", "s", "i", "l", "i", "e", "n", "c", "e" >>)
  @@ (<< "1", "9", "4", "3", "3", "2", "3", "4", "9", "1" >> :> << "R", "e", "c", "o", "v", "e", "r", "y" >>)
  @@ (<< "1", "7", "3", "5", "7", "7", "7", "5", "0", "5" >> :> << "D", "i", "s", "c", "i", "p", "l", "i", "n", "e" >>)
  @@ (<< "1", "4", "4", "6", "0", "2", "2", "1", "5" >> :> << "I", "n", "t", "e", "l", "l", "e", "c", "t" >>)
  @@ (<< "4", "2", "4", "4", "5", "6", "7", "2", "1", "8" >> :> << "S", "t", "r", "e", "n", "g", "t", "h" >>)
  @@ (<< "4", "2", "8", "4", "8", "9", "3", "1", "9", "3" >> :> << "R", "P", "M", " ", "(", "R", "o", "u", "n", "d", "s", " ", "P", "e", "r", " ", "M", "i", "n", "u", "t", "e", ")" >>)
  @@ (<< "4", "0", "4", "3", "5", "2", "3", "8", "1", "9" >> :> << "I", "m", "p", "a", "c", "t" >>)
  @@ (<< "1", "2", "4", "0", "5", "9", "2", "6", "9", "5" >> :> << "R", "a", "n", "g", "e" >>)
  @@ (<< "1", "5", "5", "6", "2", "4", "0", "8", "9" >> :> << "S", "t", "a", "b", "i", "l", "i", "t", "y" >>)
  @@ (<< "9", "4", "3", "5", "4", "9", "8", "8", "4" >> :> << "H", "a", "n", "d", "l", "i", "n", "g" >>)
  @@ (<< "4", "1", "8", "8", "0", "3", "1", "3", "6", "7" >> :> << "R", "e", "l", "o", "a", "d", " ", "S", "p", "e", "e", "d" >>)
  @@ (<< "1", "3", "4", "5", "6", "0", "9", "5", "8", "3" >> :> << "A", "i", "m", " ", "A", "s", "s", "i", "s", "t", "a", "n", "c", "e" >>)
  @@ (<< "2", "7", "1", "5", "8", "3", "9", "3", "4", "0" >> :> << "R", "e", "c", "o", "i", "l", " ", "D", "i", "r", "e", "c", "t", "i", "o", "n" >>)
  @@ (<< "3", "5", "5", "5", "2", "6", "9", "3", "3", "8" >> :> << "Z", "o", "o", "m" >>)
  @@ (<< "3", "8", "7", "1", "2", "3", "1", "0", "6", "6" >> :> << "M", "a", "g", "a", "z", "i", "n", "e" >>)
  @@ (<< "2", "9", "6", "1", "3", "9", "6", "6", "4", "0" >> :> << "C", "h", "a", "r", "g", "e", " ", "T", "i", "m", "e" >>)
  @@ (<< "4", "4", "7", "6", "6", "7", "9", "5", "4" >> :> << "D", "r", "a", "w", " ", "T", "i", "m", "e" >>)
  @@ (<< "9", "2", "5", "7", "6", "7", "0", "3", "6" >> :> << "A", "m", "m", "o", " ", "C", "a", "p", "a", "c", "i", "t", "y" >>)
  @@ (<< "1", "9", "3", "1", "6", "7", "5", "0", "8", "4" >> :> << "I", "n", "v", "e", "n", "t", "o", "r", "y", " ", "S", "i", "z", "e" >>)
  @@ (<< "3", "6", "1", "4", "6", "7", "3", "5", "9", "9" >> :> << "B", "l", "a", "s", "t", " ", "R", "a", "d", "i", "u", "s" >>)
  @@ (<< "2", "5", "2", "3", "4", "6", "5", "8", "4", "1" >> :> << "V", "e", "l", "o", "c", "i", "t", "y" >>)
  @@ (<< "1", "5", "9", "1", "4", "3", "2", "9", "9", "9" >> :> << "A", "c", "c", "u", "r", "a", "c", "y" >>)
  @@ (<< "3", "5", "9", "7", "8", "4", "4", "5", "3", "2" >> :> << "S", "h", "i", "e", "l", "d", " ", "D", "u", "r", "a", "t", "i", "o", "n" >>)
  @@ (<< "1", "5", "4", "6", "6", "0", "7", "9", "7", "7" >> :> << "G", "u", "a", "r", "d", " ", "R", "e", "s", "i", "s", "t", "a", "n", "c", "e" >>)
  @@ (<< "2", "0", "9", "4", "2", "6", "6", "6", "0" >> :> << "G", "u", "a", "r", "d", " ", "E", "f", "f", "i", "c", "i", "e", "n", "c", "y" >>)
  @@ (<< "3", "0", "2", "2", "3", "0", "1", "6", "8", "3" >> :> << "G", "u", "a", "r", "d", " ", "E", "n", "d", "u", "r", "a", "n", "c", "e" >>)
  @@ (<< "2", "8", "3", "7", "2", "0", "7", "7", "4", "6" >> :> << "S", "w", "i", "n", "g", " ", "S", "p", "e", "e", "d" >>)
  @@ (<< "1", "4", "8", "6", "9", "5", "8", "9", "8", "1" >> :> << "C", "h", "a", "r", "g", "e", " ", "R", "a", "t", "e" >>)

str_Stat_ == << "S", "t", "a", "t", "_" >>

\* A resolver that looks in STAT_HASHES before the stat table.
resolveStatNameHardcodedFirst(statHash, statDefs) ==
  LET hashStr == String(statHash)
  IN  IF hashStr \in DOMAIN STAT_HASHES THEN Ok(STAT_HASHES[hashStr])
      ELSE Ok(str_Stat_ \o hashStr)
resolveStatName(statHash, statDefs) ==
  LET hashStr == String(statHash)
      statDef == IF IsNull(statDefs) THEN Null ELSE Lookup(Val(statDefs), Some(hashStr))
      statName == IF IsNull(statDef) THEN Null
                  ELSE OptDot(Ok(Prop(Val(statDef), "displayProperties")), "name").value
  IN  IF ~FalsyString(statName) THEN Ok(Val(statName))
      ELSE IF hashStr \in DOMAIN STAT_HASHES THEN Ok(STAT_HASHES[hashStr])
      ELSE Ok(str_Stat_ \o hashStr)

(***************************************************************************)
(* exportData.js, run as a script: the options and the output directory    *)
(* it reads from process.argv.slice(2).                                    *)
(***************************************************************************)
flag_json_only == << "-", "-", "j", "s", "o", "n", "-", "o", "n", "l", "y" >>
flag_csv_only == << "-", "-", "c", "s", "v", "-", "o", "n", "l", "y" >>
flag_excel_only == << "-", "-", "e", "x", "c", "e", "l", "-", "o", "n", "l", "y" >>
flag_excel_master == << "-", "-", "e", "x", "c", "e", "l", "-", "m", "a", "s", "t", "e", "r" >>
flag_excel == << "-", "-", "e", "x", "c", "e", "l" >>
str_dashes == << "-", "-" >>
str_data == << ".", "/", "d", "a", "t", "a" >>

\* args.includes(flag)
argsInclude(args, flag) == \E i \in 1 .. Len(args) : args[i] = flag
\* args.find(arg => !arg.startsWith('--')) || './data'
outputDirOf(args) ==
  LET plain == SelectSeq(args, LAMBDA arg : ~stringStartsWith(arg, str_dashes))
  IN  IF Len(plain) = 0 \/ plain[1] = EmptyString THEN str_data ELSE plain[1]

Options(json, csv, excel, excelMaster) ==
  [json |-> json, csv |-> csv, excel |-> excel, excelMaster |-> excelMaster]

parseOptions(args) ==
  IF argsInclude(args, flag_json_only) THEN Options(TRUE, FALSE, FALSE, FALSE)
  ELSE IF argsInclude(args, flag_csv_only) THEN Options(FALSE, TRUE, FALSE, FALSE)
  ELSE IF argsInclude(args, flag_excel_only) THEN Options(FALSE, FALSE, TRUE, FALSE)
  ELSE IF argsInclude(args, flag_excel_master) THEN Options(FALSE, FALSE, FALSE, TRUE)
  ELSE Options(TRUE, TRUE, argsInclude(args, flag_excel),
               argsInclude(args, flag_excel_master))

main(args) == Ok([options |-> parseOptions(args), outputDir |-> outputDirOf(args)])


(***************************************************************************)
(* The table the Gateway serves under a name.                              *)
(***************************************************************************)
TableContent(tableName) ==
  CASE tableName = SeasonTable -> gateway.seasons
    [] tableName = ItemTable -> gateway.items
    [] tableName = StatTable -> StatDefs
    [] tableName = PerkTable -> PerkDefs
    [] tableName = DamageTable -> DamageTypeDefs

(***************************************************************************)
(* getCurrentSeasonHash: the two filters, the sort and the pick.           *)
(***************************************************************************)
\* !season.seasonNumber || season.seasonNumber <= 0 rejects the season;
\* the first definition is a filter that lets seasonNumber 0 through.
validSeasonNumberAcceptsZero(s) == s.seasonNumber >= 0
validSeasonNumber(s) == ~(s.seasonNumber = 0 \/ s.seasonNumber <= 0)
\* A start filter that lets every season through.
hasStartedAlways(s, t) == TRUE
hasStarted(s, t) == IsNull(s.startDate) \/ ~(Val(s.startDate) > t)
hasNotEnded(s, t) == IsNull(s.endDate) \/ ~(Val(s.endDate) <= t)

isActiveSeason(s, t) == validSeasonNumber(s) /\ hasStarted(s, t) /\ hasNotEnded(s, t)
isStartedSeason(s, t) == validSeasonNumber(s) /\ hasStarted(s, t)

activeSeasons(seasons, t) == SelectSeq(seasons, LAMBDA s : isActiveSeason(s, t))
startedSeasons(seasons, t) == SelectSeq(seasons, LAMBDA s : isStartedSeason(s, t))

\* seasons.sort((a, b) => b.seasonNumber - a.seasonNumber): a stable sort,
\* as an insertion sort that keeps equal keys in their order.
RECURSIVE insertBySeasonNumber(_, _)
insertBySeasonNumber(sorted, x) ==
  IF Len(sorted) = 0 THEN << x >>
  ELSE IF Head(sorted).seasonNumber >= x.seasonNumber
       THEN << Head(sorted) >> \o insertBySeasonNumber(Tail(sorted), x)
       ELSE << x >> \o sorted

RECURSIVE sortBySeasonNumberDesc(_)
sortBySeasonNumberDesc(seasons) ==
  IF Len(seasons) = 0 THEN << >>
  ELSE insertBySeasonNumber(sortBySeasonNumberDesc(SubSeq(seasons, 1, Len(seasons) - 1)),
                            seasons[Len(seasons)])

\* A resolver without the started-season tier.
selectNoFallback(seasons, t) ==
  LET active == sortBySeasonNumberDesc(activeSeasons(seasons, t))
  IN  IF Len(active) > 0 THEN Some(active[1]) ELSE Null

\* A resolver that never looks at endDate.
selectIgnoringEnd(seasons, t) ==
  LET started == sortBySeasonNumberDesc(startedSeasons(seasons, t))
  IN  IF Len(started) > 0 THEN Some(started[1]) ELSE Null

\* The season the resolver picks at time t, or Null when it throws.
selectCurrentSeason(seasons, t) ==
  LET active == activeSeasons(seasons, t)
      started == startedSeasons(seasons, t)
      sorted == IF Len(active) > 0 THEN sortBySeasonNumberDesc(active)
                ELSE sortBySeasonNumberDesc(started)
  IN  IF Len(sorted) > 0 THEN Some(sorted[1]) ELSE Null

\* currentSeason.displayProperties?.name || `Season ${currentSeasonNumber}`
seasonNameOf(s) == IF ~IsNull(s.name) THEN s.name ELSE SeasonN(s.seasonNumber)

(***************************************************************************)
(* The calls a top-level operation makes, in program order.  A "load"      *)
(* step is loadDefinitions(client, table); a "season" step is              *)
(* getCurrentSeasonHash(client).  `use` names the synchronous code that    *)
(* runs on the loaded table when the call returns, and the bucket of the   *)
(* result it works on.                                                     *)
(***************************************************************************)
NoUse == << "", "" >>
UseStep(t, fn, bucket) == [kind |-> "load", table |-> t, use |-> << fn, bucket >>]
LoadStep(t) == [kind |-> "load", table |-> t, use |-> NoUse]
SeasonStep == [kind |-> "season", table |-> SeasonTable, use |-> NoUse]

enrichItems(bucket) ==
  << UseStep(StatTable, "statDefs", ""),
     UseStep(PerkTable, "perkDefs", ""),
     UseStep(DamageTable, "enrichItems", bucket) >>

\* An order of calls that reads the weapons before it resolves the season.
getAllBuildCraftingDataWeaponsFirst ==
  << UseStep(ItemTable, "getWeapons", "weapons"),
     SeasonStep,
     UseStep(ItemTable, "getArmor", "armor"),
     UseStep(ItemTable, "getArmorMods", "armorMods"),
     UseStep(ItemTable, "getSubclassItems", ""),
     UseStep(DamageTable, "getDamageTypes", "damageTypes"),
     UseStep(ItemTable, "getArtifactMods", "artifactMods"),
     UseStep(ItemTable, "getChampionMods", "championMods") >>
  \o enrichItems("weapons") \o enrichItems("armor") \o enrichItems("armorMods")
  \o enrichItems("aspects") \o enrichItems("fragments") \o enrichItems("abilities")
  \o enrichItems("artifactMods") \o enrichItems("championMods")

getAllBuildCraftingData ==
  << SeasonStep,                                         \* getCurrentSeasonName
     UseStep(ItemTable, "getWeapons", "weapons"),
     UseStep(ItemTable, "getArmor", "armor"),
     UseStep(ItemTable, "getArmorMods", "armorMods"),
     UseStep(ItemTable, "getSubclassItems", ""),
     UseStep(DamageTable, "getDamageTypes", "damageTypes"),
     UseStep(ItemTable, "getArtifactMods", "artifactMods"),
     UseStep(ItemTable, "getChampionMods", "championMods") >>
  \o enrichItems("weapons") \o enrichItems("armor") \o enrichItems("armorMods")
  \o enrichItems("aspects") \o enrichItems("fragments") \o enrichItems("abilities")
  \o enrichItems("artifactMods") \o enrichItems("championMods")

exportBuildCraftingData == getAllBuildCraftingData \o << LoadStep(StatTable) >>

SeasonGetters == {"getCurrentSeasonHash", "getCurrentSeasonNumber", "getCurrentSeasonName"}

Script(op, arg) ==
  CASE op = "loadDefinitions" -> << LoadStep(arg) >>
    [] op \in SeasonGetters -> << SeasonStep >>
    [] op = "getAllBuildCraftingData" -> getAllBuildCraftingData
    [] op = "exportBuildCraftingData" -> exportBuildCraftingData
    [] OTHER -> << >>

(***************************************************************************)
(* The local variables of getAllBuildCraftingData and enrichItems: the     *)
(* category buckets, and the stat and perk tables of the enrichItems call  *)
(* in progress.                                                            *)
(***************************************************************************)
Buckets == {"weapons", "armor", "armorMods", "subclasses", "aspects", "fragments",
            "abilities", "damageTypes", "artifactMods", "championMods"}
Locals == Buckets \cup {"statDefs", "perkDefs"}
NoData == [b \in Locals |-> << >>]

\* The synchronous code that follows the await of a step: the new locals,
\* or a throw.
Continue(use, data, table) ==
  LET fn == use[1]
      bucket == use[2]
      put(c) == IF c.thrown THEN c ELSE Ok([data EXCEPT ![bucket] = c.value])
  IN  CASE fn = "getWeapons" -> put(getWeapons(table))
        [] fn = "getArmor" -> put(getArmor(table))
        [] fn = "getArmorMods" -> put(getArmorMods(table))
        [] fn = "getSubclassItems" ->
             LET c == getSubclassItems(table)
             IN  IF c.thrown THEN c
                 ELSE Ok([data EXCEPT !.subclasses = c.value.subclasses,
                                      !.aspects = c.value.aspects,
                                      !.fragments = c.value.fragments,
                                      !.abilities = c.value.abilities])
        [] fn = "getDamageTypes" -> put(getDamageTypes(table))
        [] fn = "getArtifactMods" -> put(getArtifactMods(table))
        [] fn = "getChampionMods" -> put(getChampionMods(table))
        [] fn = "statDefs" -> Ok([data EXCEPT !.statDefs = table])
        [] fn = "perkDefs" -> Ok([data EXCEPT !.perkDefs = table])
        [] fn = "enrichItems" ->
             put(enrichAll(data[bucket], data.statDefs, data.perkDefs, table))
        [] OTHER -> Ok(data)

\* The object getAllBuildCraftingData returns.
buildData(data) == [b \in Buckets |-> data[b]]

(***************************************************************************)
(* Frames: one awaited loadDefinitions / getCurrentSeasonHash invocation.  *)
(*   step      position of the call in the task's script                   *)
(*   select    the call is getCurrentSeasonHash past its memo check        *)
(*   pc        awaitIndex | haveManifest | awaitTable | resolved | rejected*)
(*   manifest  the local variable `manifest` of loadDefinitions            *)
(*   value     the value the call resolves to                              *)
(* A task records in `sent` the Gateway requests its calls have issued.    *)
(***************************************************************************)
Frame(step, table, select, pc, manifest, value) ==
  [step |-> step, table |-> table, select |-> select, pc |-> pc,
   manifest |-> manifest, value |-> value, err |-> ""]

InFlight(f) == f.pc \in {"awaitIndex", "awaitTable"}

\* A loadManifest that requests the index whatever the cache holds.
loadManifestAlwaysRequests(step, table, select) ==
  Frame(step, table, select, "awaitIndex", Null, Null)

\* loadManifest, up to its await: the cached manifest, or a request.
loadManifestStart(step, table, select) ==
  IF ~IsNull(manifestCache)
  THEN Frame(step, table, select, "haveManifest", manifestCache, Null)
  ELSE Frame(step, table, select, "awaitIndex", Null, Null)

\* loadDefinitions, up to its first await.
loadDefinitionsNoCache(step, table, select) == loadManifestStart(step, table, select)
loadDefinitionsStart(step, table, select) ==
  IF Truthy(definitionsCache[table])
  THEN Frame(step, table, select, "resolved", Null, definitionsCache[table])
  ELSE loadManifestStart(step, table, select)

\* getCurrentSeasonHash, up to its first await: `currentSeasonHash !== null`.
seasonMemoNeverHits == FALSE
seasonMemoHit == ~IsNull(currentSeasonHash)

getCurrentSeasonHashStart(step) ==
  IF seasonMemoHit
  THEN Frame(step, SeasonTable, FALSE, "resolved", Null, currentSeasonHash)
  ELSE loadDefinitionsStart(step, SeasonTable, TRUE)

\* The code awaits every call before it makes the next one.
launchesWithoutAwait(task) == TRUE
awaitsEachCall(task) == task.calls = {}

IdleTask ==
  [state |-> "idle", op |-> "", arg |-> "", pos |-> 1, calls |-> {},
   sent |-> << >>, status |-> "", value |-> Null, data |-> NoData]

Running(k) == tasks[k].state = "running"
Quiescent == \A k \in Tasks : ~Running(k)

AllFrames == UNION {tasks[k].calls : k \in Tasks}
RequestsInFlight(r) ==
  Cardinality({kf \in {<< k, f >> : k \in Tasks, f \in AllFrames} :
                 /\ kf[2] \in tasks[kf[1]].calls
                 /\ \/ kf[2].pc = "awaitIndex" /\ r = IndexResource
                    \/ kf[2].pc = "awaitTable" /\ r = kf[2].table})
TotalInFlight ==
  Cardinality({kf \in {<< k, f >> : k \in Tasks, f \in AllFrames} :
                 kf[2] \in tasks[kf[1]].calls /\ InFlight(kf[2])})

SetFrame(k, f, g) == [tasks EXCEPT ![k].calls = (@ \ {f}) \cup {g}]

(***************************************************************************)
(* A caller starts a top-level call.                                       *)
(***************************************************************************)
Call(k, op, arg) ==
  /\ ~Running(k)
  /\ tasks' = [tasks EXCEPT ![k] = [IdleTask EXCEPT !.state = "running",
                                                    !.op = op, !.arg = arg]]
  /\ lastStep' = << "call", k >>
  /\ UNCHANGED << cacheVars, seasonVars, now, gateway, fetches, failures,
                  stored, selections, returned >>

(***************************************************************************)
(* The task makes its next call, which runs up to its first await.         *)
(***************************************************************************)
Launch(k) ==
  LET task == tasks[k]
      script == Script(task.op, task.arg)
  IN  /\ Running(k)
      /\ task.pos <= Len(script)
      /\ awaitsEachCall(task)
      /\ LET step == script[task.pos]
             frame == IF step.kind = "season"
                      THEN getCurrentSeasonHashStart(task.pos)
                      ELSE loadDefinitionsStart(task.pos, step.table, FALSE)
             request == frame.pc = "awaitIndex"
         IN  /\ tasks' = [tasks EXCEPT ![k].pos = @ + 1,
                                       ![k].calls = @ \cup {frame},
                                       ![k].sent = IF request
                                                   THEN Append(@, IndexResource)
                                                   ELSE @]
             /\ fetches' = IF request
                           THEN [fetches EXCEPT ![IndexResource] = @ + 1]
                           ELSE fetches
      /\ lastStep' = << "launch", k >>
      /\ UNCHANGED << cacheVars, seasonVars, now, gateway, failures,
                      stored, selections, returned >>

(***************************************************************************)
(* getManifest resolves: loadManifest stores the index and returns it.     *)
(***************************************************************************)
IndexOk(k, f) ==
  /\ f \in tasks[k].calls /\ f.pc = "awaitIndex"
  /\ manifestCache' = Some(gateway.index)
  /\ tasks' = SetFrame(k, f, [f EXCEPT !.pc = "haveManifest",
                                      !.manifest = Some(gateway.index)])
  /\ stored' = [stored EXCEPT ![IndexResource] = @ + 1]
  /\ lastStep' = << "indexOk", k >>
  /\ UNCHANGED << definitionsCache, seasonVars, now, gateway, fetches, failures,
                  selections, returned >>

(***************************************************************************)
(* getManifest rejects (transport failure, non-success status, ErrorCode): *)
(* the error passes through loadManifest and loadDefinitions.              *)
(***************************************************************************)
IndexFail(k, f) ==
  /\ f \in tasks[k].calls /\ f.pc = "awaitIndex"
  /\ failures < MaxFailures
  /\ failures' = failures + 1
  /\ tasks' = SetFrame(k, f, [f EXCEPT !.pc = "rejected", !.err = NetworkError])
  /\ lastStep' = << "indexFail", k >>
  /\ UNCHANGED << cacheVars, seasonVars, now, gateway, fetches, stored, selections, returned >>

(***************************************************************************)
(* loadDefinitions resumes with the manifest: getDefinitionPath, then the  *)
(* download is requested.                                                  *)
(***************************************************************************)
ResolvePath(k, f) ==
  /\ f \in tasks[k].calls /\ f.pc = "haveManifest"
  /\ LET e == getDefinitionPath(Val(f.manifest), f.table)
     IN  IF ~IsNull(e)
         THEN /\ tasks' = SetFrame(k, f, [f EXCEPT !.pc = "rejected", !.err = Val(e)])
              /\ fetches' = fetches
         ELSE /\ tasks' = [SetFrame(k, f, [f EXCEPT !.pc = "awaitTable"])
                           EXCEPT ![k].sent = Append(@, f.table)]
              /\ fetches' = [fetches EXCEPT ![f.table] = @ + 1]
  /\ lastStep' = << "resolvePath", k >>
  /\ UNCHANGED << cacheVars, seasonVars, now, gateway, failures, stored, selections, returned >>

(***************************************************************************)
(* downloadManifestComponent resolves: loadDefinitions stores the table    *)
(* and returns it.                                                         *)
(***************************************************************************)
TableOk(k, f) ==
  /\ f \in tasks[k].calls /\ f.pc = "awaitTable"
  /\ definitionsCache' = [definitionsCache EXCEPT ![f.table] = Some(TableContent(f.table))]
  /\ tasks' = SetFrame(k, f, [f EXCEPT !.pc = "resolved",
                                      !.value = Some(TableContent(f.table))])
  /\ stored' = [stored EXCEPT ![f.table] = @ + 1]
  /\ lastStep' = << "tableOk", k >>
  /\ UNCHANGED << manifestCache, seasonVars, now, gateway, fetches, failures,
                  selections, returned >>

(***************************************************************************)
(* downloadManifestComponent rejects: fetch fails or !response.ok.         *)
(***************************************************************************)
TableFailCachesEmpty(k, f) ==
  /\ f \in tasks[k].calls /\ f.pc = "awaitTable"
  /\ failures < MaxFailures
  /\ failures' = failures + 1
  /\ definitionsCache' = [definitionsCache EXCEPT ![f.table] = Some(<< >>)]
  /\ tasks' = SetFrame(k, f, [f EXCEPT !.pc = "rejected", !.err = NetworkError])
  /\ lastStep' = << "tableFail", k >>
  /\ UNCHANGED << manifestCache, seasonVars, now, gateway, fetches, stored, selections, returned >>

TableFail(k, f) ==
  /\ f \in tasks[k].calls /\ f.pc = "awaitTable"
  /\ failures < MaxFailures
  /\ failures' = failures + 1
  /\ tasks' = SetFrame(k, f, [f EXCEPT !.pc = "rejected", !.err = NetworkError])
  /\ lastStep' = << "tableFail", k >>
  /\ UNCHANGED << cacheVars, seasonVars, now, gateway, fetches, stored, selections, returned >>

(***************************************************************************)
(* The awaiting code resumes with the outcome of a call.  A rejection      *)
(* propagates to the caller of the top-level operation.  A resolved        *)
(* getCurrentSeasonHash past its memo check selects the season with the    *)
(* clock as it reads now, and throws or memoizes.  After its last call the *)
(* operation returns.                                                      *)
(***************************************************************************)
Failed(task, err) ==
  [task EXCEPT !.state = "done", !.calls = {}, !.status = err, !.value = Null]

\* currentSeasonName || `Season ${currentSeasonNumber}` in getCurrentSeasonName
nameOrDefault(name, number) == IF ~IsNull(name) THEN name ELSE SeasonN(number)

ReturnValue(op, f, hash, name, number) ==
  CASE op = "loadDefinitions" -> f.value
    [] op = "getCurrentSeasonHash" -> IF f.select THEN hash ELSE f.value
    [] op = "getCurrentSeasonNumber" -> number
    [] op = "getCurrentSeasonName" -> nameOrDefault(name, number)
    [] OTHER -> Null

Resume(k, f) ==
  LET task == tasks[k]
      script == Script(task.op, task.arg)
      picked == IF f.pc = "resolved" /\ f.select
                THEN selectCurrentSeason(Val(f.value), now)
                ELSE Null
      memoize == f.pc = "resolved" /\ f.select /\ ~IsNull(picked)
      hash == IF memoize THEN Some(Val(picked).hash) ELSE currentSeasonHash
      number == IF memoize THEN Some(Val(picked).seasonNumber) ELSE currentSeasonNumber
      name == IF memoize THEN seasonNameOf(Val(picked)) ELSE currentSeasonName
      rest == task.calls \ {f}
      outcome == IF f.pc = "resolved" /\ ~IsNull(f.value)
                 THEN Continue(script[f.step].use, task.data, Val(f.value))
                 ELSE Ok(task.data)
      value == IF task.op = "getAllBuildCraftingData"
               THEN Some(buildData(outcome.value))
               ELSE ReturnValue(task.op, f, hash, name, number)
  IN  /\ f \in task.calls /\ f.pc \in {"resolved", "rejected"}
      /\ currentSeasonHash' = hash
      /\ currentSeasonNumber' = number
      /\ currentSeasonName' = name
      /\ selections' = IF memoize THEN selections + 1 ELSE selections
      /\ IF f.pc = "rejected"
         THEN /\ tasks' = [tasks EXCEPT ![k] = Failed(task, f.err)]
              /\ returned' = returned
         ELSE IF f.select /\ IsNull(picked)
         THEN /\ tasks' = [tasks EXCEPT ![k] = Failed(task, SeasonResolutionError)]
              /\ returned' = returned
         ELSE IF outcome.thrown
         THEN /\ tasks' = [tasks EXCEPT ![k] = Failed(task, TypeError)]
              /\ returned' = returned
         ELSE IF task.pos > Len(script) /\ rest = {}
         THEN /\ tasks' = [tasks EXCEPT ![k] = [task EXCEPT !.state = "done",
                                                            !.calls = {},
                                                            !.status = "ok",
                                                            !.value = value,
                                                            !.data = outcome.value]]
              /\ returned' = IF task.op \in SeasonGetters
                             THEN returned \cup {<< task.op, value >>}
                             ELSE returned
         ELSE /\ tasks' = [tasks EXCEPT ![k].calls = rest, ![k].data = outcome.value]
              /\ returned' = returned
      /\ lastStep' = << "resume", k >>
      /\ UNCHANGED << cacheVars, now, gateway, fetches, failures, stored >>

(***************************************************************************)
(* clearCache()                                                            *)
(***************************************************************************)
clearCacheKeepsSeasonNumber ==
  /\ manifestCache' = Null
  /\ definitionsCache' = [t \in Tables |-> Null]
  /\ currentSeasonHash' = Null
  /\ currentSeasonName' = Null
  /\ fetches' = [r \in Resources |-> 0]
  /\ stored' = [r \in Resources |-> 0]
  /\ selections' = 0
  /\ returned' = {}
  /\ lastStep' = << "clearCache", 0 >>
  /\ UNCHANGED << currentSeasonNumber, now, gateway, tasks, failures >>

clearCacheKeepsSeasonName ==
  /\ manifestCache' = Null
  /\ definitionsCache' = [t \in Tables |-> Null]
  /\ currentSeasonHash' = Null
  /\ currentSeasonNumber' = Null
  /\ fetches' = [r \in Resources |-> 0]
  /\ stored' = [r \in Resources |-> 0]
  /\ selections' = 0
  /\ returned' = {}
  /\ lastStep' = << "clearCache", 0 >>
  /\ UNCHANGED << currentSeasonName, now, gateway, tasks, failures >>

clearCache ==
  /\ manifestCache' = Null
  /\ definitionsCache' = [t \in Tables |-> Null]
  /\ currentSeasonHash' = Null
  /\ currentSeasonName' = Null
  /\ currentSeasonNumber' = Null
  /\ fetches' = [r \in Resources |-> 0]
  /\ stored' = [r \in Resources |-> 0]
  /\ selections' = 0
  /\ returned' = {}
  /\ lastStep' = << "clearCache", 0 >>
  /\ UNCHANGED << now, gateway, tasks, failures >>

(***************************************************************************)
(* Time passes.                                                            *)
(***************************************************************************)
Tick ==
  /\ now < MaxNow
  /\ now' = now + 1
  /\ lastStep' = << "tick", 0 >>
  /\ UNCHANGED << cacheVars, seasonVars, gateway, tasks, fetches, failures,
                  stored, selections, returned >>

(***************************************************************************)
(* What the Gateway may serve.                                             *)
(***************************************************************************)
FullIndex == [en |-> TRUE, paths |-> Tables]
Indexes == {[en |-> e, paths |-> Tables \ missing] :
              e \in BOOLEAN, missing \in {{}, {StatTable}, {SeasonTable}}}

Dates == {Null} \cup {Some(d) : d \in 0 .. MaxNow}
EndsAfterStart(s, e) == IsNull(s) \/ IsNull(e) \/ Val(e) > Val(s)
SeasonShapes ==
  {x \in [seasonNumber : 0 .. MaxSeasons, startDate : Dates, endDate : Dates] :
     EndsAfterStart(x.startDate, x.endDate)}
\* The table whose i-th record has hash i and the i-th shape.
SeasonTableOf(shapes, n) ==
  [i \in 1 .. n |-> Season(i, shapes[i].seasonNumber, shapes[i].startDate,
                           shapes[i].endDate, DisplayName(i))]

\* Season 1 is current at time 0; from time 1 on it has ended and the
\* unnamed, open-ended season 2 is current.
TwoSeasons ==
  << Season(1, 1, Some(0), Some(1), DisplayName(1)),
     Season(2, 2, Some(1), Null, Null) >>

InitState(indexes, seasonTables, itemTables, times, args) ==
  /\ manifestCache = Null
  /\ definitionsCache = [t \in Tables |-> Null]
  /\ currentSeasonHash = Null
  /\ currentSeasonName = Null
  /\ currentSeasonNumber = Null
  /\ now \in times
  /\ gateway \in {[index |-> i, seasons |-> s, items |-> t] :
                    i \in indexes, s \in seasonTables, t \in itemTables}
  /\ tasks \in {[k \in Tasks |-> IF k = MainTask THEN [IdleTask EXCEPT !.arg = a]
                                  ELSE IdleTask] : a \in args}
  /\ fetches = [r \in Resources |-> 0]
  /\ failures = 0
  /\ stored = [r \in Resources |-> 0]
  /\ selections = 0
  /\ returned = {}
  /\ lastStep = << "init", 0 >>

\* An empty item table, and no argument waiting.
InitWith(indexes, seasonTables, times) ==
  InitState(indexes, seasonTables, {<< >>}, times, {""})

(***************************************************************************)
(* The event loop: any suspended call may be resumed.                      *)
(***************************************************************************)
Respond ==
  \/ \E k \in Tasks : \E f \in tasks[k].calls : IndexOk(k, f)
  \/ \E k \in Tasks : \E f \in tasks[k].calls : IndexFail(k, f)
  \/ \E k \in Tasks : \E f \in tasks[k].calls : ResolvePath(k, f)
  \/ \E k \in Tasks : \E f \in tasks[k].calls : TableOk(k, f)
  \/ \E k \in Tasks : \E f \in tasks[k].calls : TableFail(k, f)
  \/ \E k \in Tasks : \E f \in tasks[k].calls : Resume(k, f)

(***************************************************************************)
(* Spec: one caller, one call at a time (spec section 5): the caller       *)
(* calls loadDefinitions, the season getters and clearCache in any order,  *)
(* each after the previous call has returned or thrown.                    *)
(***************************************************************************)
Init == InitWith(Indexes, {<< >>, TwoSeasons}, {0})

CallAny(k) ==
  \/ \E t \in {StatTable, SeasonTable} : Call(k, "loadDefinitions", t)
  \/ \E op \in SeasonGetters : Call(k, op, "")

CallerCalls == Quiescent /\ CallAny(MainTask)
CallerClears == Quiescent /\ clearCache

Next ==
  \/ CallerCalls
  \/ CallerClears
  \/ Tick
  \/ \E k \in Tasks : Launch(k)
  \/ Respond

Spec == Init /\ [][Next]_vars

(***************************************************************************)
(* SpecSeason: the caller resolves the current season, for every season    *)
(* table within the bounds and every time of day; the Gateway answers.     *)
(***************************************************************************)
InitSeason ==
  \E n \in 0 .. MaxSeasons : \E shapes \in [1 .. n -> SeasonShapes] :
    InitWith({FullIndex}, {SeasonTableOf(shapes, n)}, 0 .. MaxNow)

ResolveSeason == Quiescent /\ Call(MainTask, "getCurrentSeasonHash", "")

NextSeason ==
  \/ ResolveSeason
  \/ \E k \in Tasks : Launch(k)
  \/ \E k \in Tasks : \E f \in tasks[k].calls : IndexOk(k, f)
  \/ \E k \in Tasks : \E f \in tasks[k].calls : ResolvePath(k, f)
  \/ \E k \in Tasks : \E f \in tasks[k].calls : TableOk(k, f)
  \/ \E k \in Tasks : \E f \in tasks[k].calls : Resume(k, f)

SpecSeason == InitSeason /\ [][NextSeason]_vars

(***************************************************************************)
(* SpecConcurrent: several callers, whose calls interleave at their await  *)
(* points (Promise.all over exported functions).                           *)
(***************************************************************************)
InitConcurrent == InitWith({FullIndex}, {TwoSeasons}, {0})

ConcurrentCalls ==
  \E k \in Tasks :
    \/ \E t \in {StatTable, SeasonTable} : Call(k, "loadDefinitions", t)
    \/ Call(k, "getCurrentSeasonHash", "")

NextConcurrent ==
  \/ ConcurrentCalls
  \/ \E k \in Tasks : Launch(k)
  \/ \E k \in Tasks : \E f \in tasks[k].calls : IndexOk(k, f)
  \/ \E k \in Tasks : \E f \in tasks[k].calls : ResolvePath(k, f)
  \/ \E k \in Tasks : \E f \in tasks[k].calls : TableOk(k, f)
  \/ \E k \in Tasks : \E f \in tasks[k].calls : Resume(k, f)

SpecConcurrent == InitConcurrent /\ [][NextConcurrent]_vars

(***************************************************************************)
(* SpecDriver: one run of the export driver (exportData.js): a cold cache, *)
(* getAllBuildCraftingData, then loadStatDefinitions.                      *)
(***************************************************************************)
InitDriver == InitWith(Indexes, {<< >>, TwoSeasons}, {0})

RunExport ==
  /\ \A k \in Tasks : tasks[k].state = "idle"
  /\ Call(MainTask, "exportBuildCraftingData", "")

NextDriver ==
  \/ RunExport
  \/ Tick
  \/ \E k \in Tasks : Launch(k)
  \/ Respond

SpecDriver == InitDriver /\ [][NextDriver]_vars

(***************************************************************************)
(*                               Properties                                *)
(***************************************************************************)
(* Item definitions.  A field of an item is absent (no key, or Null) or    *)
(* Some(value); the category hashes are a set, the per-instance stats a    *)
(* function from stat hashes to stat records.                              *)
(***************************************************************************)
CategoryLists ==
  {Null, Some({WEAPON}), Some({ARMOR_MODS}), Some({SUBCLASS}), Some({WEAPON, ARMOR})}
PlugBlocks ==
  {Null, Some([plugCategoryIdentifier |-> Null])}
    \cup {Some([plugCategoryIdentifier |-> Some(s)]) :
            s \in {txt_Subclass_Aspects, txt_shared_fragments, txt_V400_Plugs_Abilities,
                   txt_Artifact_Perk, txt_enhancements_v2}}
ItemTypeNames ==
  {Null, Some(txt_Aspect), Some(txt_Fragment), Some(txt_Artifact_Mod)}
Named(name) == Some([name |-> Some(name), description |-> Null])
DisplayBlocks ==
  {Null,
   Some([name |-> Null, description |-> Some(txt_Stuns_Overload)]),
   Named(EmptyString),
   Named(txt_Fragmentation_Grenade),
   Named(txt_Anti_Barrier_Rifle),
   Some([name |-> Some(txt_Aspect_of_Power), description |-> Some(txt_Stuns_Overload)])}
Flags == {Null, Some(TRUE), Some(FALSE)}
SeasonHashes == {Null, Some(0), Some(1), Some(2)}

SomeStats ==
  Some([stats |-> Some(<< [value |-> Some(5), minimum |-> Null,
                           maximum |-> Some(0), displayMaximum |-> Some(10)],
                          [value |-> Some(0), minimum |-> Some(1),
                           maximum |-> Some(50), displayMaximum |-> Null],
                          [value |-> Null, minimum |-> Null,
                           maximum |-> Null, displayMaximum |-> Null] >>)])
SomePerks == Some(<< [perkHash |-> Some(1)], [perkHash |-> Some(3)], [perkHash |-> Null] >>)
SomeSockets ==
  Some([socketEntries |->
          Some(<< [socketTypeHash |-> Some(7), singleInitialItemHash |-> Some(9),
                   reusablePlugSetHash |-> Null],
                  [socketTypeHash |-> Some(8), singleInitialItemHash |-> Some(0),
                   reusablePlugSetHash |-> Some(4)] >>)])

ItemOf(categories, plug, itemType, display, redacted, equippable, seasonHash) ==
  [itemCategoryHashes |-> categories, plug |-> plug, itemTypeDisplayName |-> itemType,
   displayProperties |-> display, redacted |-> redacted, equippable |-> equippable,
   seasonHash |-> seasonHash, stats |-> SomeStats, perks |-> SomePerks,
   sockets |-> SomeSockets, defaultDamageType |-> Some(1)]

\* Every combination of the fields the classifiers read, on items that
\* are marked non-equippable.
ClassifierItems ==
  {ItemOf(c, p, t, d, Null, Some(FALSE), Some(1)) :
     c \in CategoryLists, p \in PlugBlocks, t \in ItemTypeNames, d \in DisplayBlocks}

\* One item of each kind, with every combination of the fields the
\* usability and season filters read.
Exemplar(kind) ==
  CASE kind = "weapon" -> << Some({WEAPON}), Null, Some(txt_Auto_Rifle), Named(txt_X) >>
    [] kind = "armorMod" ->
         << Some({ARMOR_MODS}), Some([plugCategoryIdentifier |-> Some(txt_enhancements_v2)]),
            Null, Named(txt_Anti_Barrier_Rifle) >>
    [] kind = "aspect" ->
         << Some({SUBCLASS}), Some([plugCategoryIdentifier |-> Some(txt_Subclass_Aspects)]),
            Some(txt_Aspect), Named(txt_Aspect_of_Power) >>
    [] kind = "ability" ->
         << Null, Some([plugCategoryIdentifier |-> Some(txt_V400_Plugs_Abilities)]),
            Null, Named(txt_Fragmentation_Grenade) >>
    [] kind = "artifactMod" ->
         << Null, Some([plugCategoryIdentifier |-> Some(txt_Artifact_Perk)]),
            Some(txt_Artifact_Mod), Named(txt_X) >>
Kinds == {"weapon", "armorMod", "aspect", "ability", "artifactMod"}
ExemplarItems ==
  {ItemOf(Exemplar(k)[1], Exemplar(k)[2], Exemplar(k)[3], Exemplar(k)[4], r, e, s) :
     k \in Kinds, r \in Flags, e \in Flags, s \in SeasonHashes}

\* An item with every field, and the items that lack any subset of the
\* optional ones.
CompleteItem ==
  ItemOf(Some({ARMOR_MODS}), Some([plugCategoryIdentifier |-> Some(txt_Artifact_Perk)]),
         Some(txt_Aspect), Named(txt_Anti_Barrier_Rifle), Some(FALSE), Some(FALSE), Some(1))
OptionalFields ==
  {"plug", "displayProperties", "itemCategoryHashes", "itemTypeDisplayName",
   "stats", "perks", "sockets"}
Without(item, missing) == [k \in DOMAIN item \ missing |-> item[k]]
SparseItems == {Without(CompleteItem, missing) : missing \in SUBSET OptionalFields}

\* The items whose blocks are there but empty: plug: {}, displayProperties:
\* {}, stats: {}, sockets: {}, perks: [].
EmptyBlock == Some(<< >>)
Hollow(item, hollow) ==
  [k \in DOMAIN item |-> IF k \in hollow THEN EmptyBlock ELSE item[k]]
HollowItems ==
  {Hollow(CompleteItem, hollow) :
     hollow \in SUBSET {"plug", "displayProperties", "stats", "sockets", "perks"}}

PipelineItems == ClassifierItems \cup ExemplarItems \cup SparseItems \cup HollowItems

\* The item tables of the pipeline runs: one item, or two of the plain ones.
PlainItems == {ItemOf(Exemplar(k)[1], Exemplar(k)[2], Exemplar(k)[3], Exemplar(k)[4],
                      Some(FALSE), Some(TRUE), Some(2)) : k \in Kinds}
ItemTables ==
  {<< >>} \cup {<< i >> : i \in PipelineItems}
          \cup {<< i, j >> : i \in PlainItems, j \in PlainItems}

(***************************************************************************)
(* SpecPipeline: one run of getAllBuildCraftingData on a cold cache, for   *)
(* every item table above; the Gateway answers every request.              *)
(***************************************************************************)
InitPipeline == InitState({FullIndex}, {TwoSeasons}, ItemTables, {1}, {""})

RunPipeline ==
  /\ \A k \in Tasks : tasks[k].state = "idle"
  /\ Call(MainTask, "getAllBuildCraftingData", "")

NextPipeline ==
  \/ RunPipeline
  \/ \E k \in Tasks : Launch(k)
  \/ \E k \in Tasks : \E f \in tasks[k].calls : IndexOk(k, f)
  \/ \E k \in Tasks : \E f \in tasks[k].calls : ResolvePath(k, f)
  \/ \E k \in Tasks : \E f \in tasks[k].calls : TableOk(k, f)
  \/ \E k \in Tasks : \E f \in tasks[k].calls : Resume(k, f)

SpecPipeline == InitPipeline /\ [][NextPipeline]_vars

(***************************************************************************)
(* SpecFilters: the synchronous functions of buildCrafting.js, each        *)
(* applied once to an argument drawn from the sets below.  The argument    *)
(* waits in tasks[MainTask].arg; the call returns in one step.             *)
(***************************************************************************)
UsabilityItems ==
  {[redacted |-> r, equippable |-> e, displayProperties |-> d] :
     r \in Flags, e \in Flags, d \in {Null, Named(EmptyString), Named(txt_X)}}
\* [{redacted: true, ...}, {equippable: false, ...},
\*  {displayProperties: {name: 'X'}, equippable: true, redacted: false}]
ThreeItems ==
  << [redacted |-> Some(TRUE), equippable |-> Some(TRUE), displayProperties |-> Named(txt_X)],
     [redacted |-> Some(FALSE), equippable |-> Some(FALSE), displayProperties |-> Named(txt_X)],
     [redacted |-> Some(FALSE), equippable |-> Some(TRUE), displayProperties |-> Named(txt_X)] >>

SeasonItems == {[redacted |-> r, seasonHash |-> s] :
                  r \in Flags, s \in SeasonHashes \cup {Some(3)}}
\* Season tables for the season-number map: hash 1 is season 3, hash 2 is
\* season 5; hash 3 is in no table.
NumberedSeasons ==
  {<< >>,
   << Season(1, 3, Null, Null, Null) >>,
   << Season(1, 3, Null, Null, Null), Season(2, 5, Null, Null, Null) >>}
SeasonNumbers == {0, 2, 3, 5}

\* An item with every block enrichment reads and with keys named like the
\* ones enrichment writes, and the items with any subset of these keys.
EnrichableItem ==
  [displayProperties |-> Named(txt_X), stats |-> SomeStats, perks |-> SomePerks,
   sockets |-> SomeSockets, defaultDamageType |-> Some(1),
   enrichedStats |-> Some(<< >>), enrichedPerks |-> Some(<< >>),
   enrichedSockets |-> Some(<< >>), enrichedDamageType |-> Null]
EnrichableItems ==
  {Without(EnrichableItem, missing) : missing \in SUBSET DOMAIN EnrichableItem}
    \cup {Hollow(EnrichableItem, hollow) : hollow \in SUBSET {"stats", "sockets", "perks"}}

\* Stat entries with each number absent, zero or positive; perk references
\* into and out of the perk table (hashes 1 and 2 are in it); socket entries
\* with and without an initial plug.
Numbers == {Null, Some(0), Some(5)}
StatEntries == [value : Numbers, minimum : Numbers, maximum : Numbers,
                displayMaximum : Numbers]
StatHashes == {1, 2, 3}
PerkEntries == {[perkHash |-> h] : h \in {Null, Some(1), Some(2), Some(3)}}
SocketEntries ==
  {[socketTypeHash |-> Some(t), singleInitialItemHash |-> h, reusablePlugSetHash |-> Null] :
     t \in {7, 8}, h \in {Null, Some(0), Some(9)}}

\* Stat hashes as numbers and as strings, in and out of STAT_HASHES and of
\* the stat tables below.
txt_144602215 == << "1", "4", "4", "6", "0", "2", "2", "1", "5" >>
txt_392767087 == << "3", "9", "2", "7", "6", "7", "0", "8", "7" >>
txt_2996146975 == << "2", "9", "9", "6", "1", "4", "6", "9", "7", "5" >>
txt_7 == << "7" >>
txt_0 == << "0" >>
txt_Brains == << "B", "r", "a", "i", "n", "s" >>
NumberHashes == {NumberValue(n) : n \in {144602215, 392767087, 7, 0}}
StringHashes == {txt_144602215, txt_392767087, txt_2996146975, txt_7, txt_0}
\* Stat definitions: named, with an empty name, without a name, without
\* displayProperties.
StatDefinitions ==
  {[displayProperties |-> Some([name |-> Some(txt_Brains)])],
   [displayProperties |-> Some([name |-> Some(EmptyString)])],
   [displayProperties |-> Some([name |-> Null])],
   [displayProperties |-> Null]}
StatTableKeys == {txt_144602215, txt_7}

\* The command lines: up to MaxArgs arguments, each a flag or a directory.
txt_my_output_dir == << ".", "/", "m", "y", "-", "o", "u", "t", "p", "u", "t", "-", "d", "i", "r" >>
Arguments == {flag_json_only, flag_csv_only, flag_excel_only, flag_excel_master,
              flag_excel, txt_my_output_dir}

InitArgs(args) == InitState({FullIndex}, {TwoSeasons}, {<< >>}, {0}, args)

InitFilters ==
  \/ \E n \in 0 .. MaxItems : \E items \in [1 .. n -> UsabilityItems] :
       InitArgs({[fn |-> "filterUsableItems", items |-> items, allowNonEquippable |-> a] :
                   a \in Flags})
  \/ InitArgs({[fn |-> "filterUsableItems", items |-> ThreeItems, allowNonEquippable |-> a] :
                 a \in Flags})
  \/ \E n \in 0 .. MaxItems : \E items \in [1 .. n -> SeasonItems] :
       \/ InitArgs({[fn |-> "filterByCurrentSeason", items |-> items, seasonHash |-> s] :
                      s \in SeasonHashes})
       \/ InitArgs({[fn |-> "filterUpToCurrentSeason", items |-> items,
                     currentSeasonNumber |-> c, seasons |-> t] :
                      c \in SeasonNumbers, t \in NumberedSeasons})
  \/ InitArgs({[fn |-> f, item |-> i] :
                 f \in {"enrichItemWithStats", "enrichItemWithPerks"},
                 i \in EnrichableItems})
  \/ \E h \in StatHashes : \E entry \in StatEntries :
       InitArgs({[fn |-> "enrichItemWithStats",
                  item |-> [stats |-> Some([stats |-> Some([x \in {h} |-> entry])])]]})
  \/ \E n \in 0 .. MaxItems : \E perks \in [1 .. n -> PerkEntries] :
       InitArgs({[fn |-> "enrichItemWithPerks", item |-> [perks |-> Some(perks)]]})
  \/ \E n \in 0 .. MaxItems : \E entries \in [1 .. n -> SocketEntries] :
       InitArgs({[fn |-> "enrichItemWithPerks",
                  item |-> [sockets |-> Some([socketEntries |-> Some(entries)])]]})
  \/ \E keys \in SUBSET StatTableKeys : \E table \in [keys -> StatDefinitions] :
       \/ InitArgs({[fn |-> "resolveStatName", statHash |-> h, statDefs |-> Some(table)] :
                      h \in NumberHashes})
       \/ InitArgs({[fn |-> "resolveStatName", statHash |-> h, statDefs |-> Some(table)] :
                      h \in StringHashes})
  \/ InitArgs({[fn |-> "resolveStatName", statHash |-> h, statDefs |-> Null] :
                 h \in NumberHashes})
  \/ InitArgs({[fn |-> "resolveStatName", statHash |-> h, statDefs |-> Null] :
                 h \in StringHashes})
  \/ \E n \in 0 .. MaxArgs : \E args \in [1 .. n -> Arguments] :
       InitArgs({[fn |-> "main", args |-> args]})

Pending(fn) ==
  /\ tasks[MainTask].state = "idle"
  /\ tasks[MainTask].arg.fn = fn

Apply(fn, c) ==
  /\ tasks' = [tasks EXCEPT ![MainTask] =
                 [@ EXCEPT !.state = "done", !.op = fn,
                           !.status = IF c.thrown THEN TypeError ELSE "ok",
                           !.value = IF c.thrown THEN Null ELSE Some(c.value)]]
  /\ lastStep' = << "apply", MainTask >>
  /\ UNCHANGED << cacheVars, seasonVars, now, gateway, fetches, failures,
                  stored, selections, returned >>

\* allowNonEquippable = false when the argument is not given
ApplyFilterUsableItems ==
  /\ Pending("filterUsableItems")
  /\ LET arg == tasks[MainTask].arg
     IN  Apply("filterUsableItems",
               filterUsableItems(arg.items,
                                 IF IsNull(arg.allowNonEquippable) THEN FALSE
                                 ELSE Val(arg.allowNonEquippable)))

ApplyFilterByCurrentSeason ==
  /\ Pending("filterByCurrentSeason")
  /\ LET arg == tasks[MainTask].arg
     IN  Apply("filterByCurrentSeason", filterByCurrentSeason(arg.items, arg.seasonHash))

ApplyFilterUpToCurrentSeason ==
  /\ Pending("filterUpToCurrentSeason")
  /\ LET arg == tasks[MainTask].arg
     IN  Apply("filterUpToCurrentSeason",
               filterUpToCurrentSeason(arg.items, arg.currentSeasonNumber,
                                       getSeasonHashToNumberMap(arg.seasons)))

ApplyEnrichItemWithStats ==
  /\ Pending("enrichItemWithStats")
  /\ Apply("enrichItemWithStats", enrichItemWithStats(tasks[MainTask].arg.item, StatDefs))

ApplyEnrichItemWithPerks ==
  /\ Pending("enrichItemWithPerks")
  /\ Apply("enrichItemWithPerks",
           enrichItemWithPerks(tasks[MainTask].arg.item, PerkDefs, DamageTypeDefs))

ApplyResolveStatName ==
  /\ Pending("resolveStatName")
  /\ Apply("resolveStatName",
           resolveStatName(tasks[MainTask].arg.statHash, tasks[MainTask].arg.statDefs))

ApplyMain ==
  /\ Pending("main")
  /\ Apply("main", main(tasks[MainTask].arg.args))

NextFilters ==
  \/ ApplyFilterUsableItems
  \/ ApplyFilterByCurrentSeason
  \/ ApplyFilterUpToCurrentSeason
  \/ ApplyEnrichItemWithStats
  \/ ApplyEnrichItemWithPerks
  \/ ApplyResolveStatName
  \/ ApplyMain

SpecFilters == InitFilters /\ [][NextFilters]_vars

(***************************************************************************)
\* Task k's call has just returned or thrown: no step has been taken since.
Returned(k) == lastStep = << "resume", k >> /\ tasks[k].state = "done"
ReturnedOk(k, op) == Returned(k) /\ tasks[k].op = op /\ tasks[k].status = "ok"
Threw(k, op, err) == Returned(k) /\ tasks[k].op = op /\ tasks[k].status = err

Occurrences(seq, x) == Cardinality({i \in 1 .. Len(seq) : seq[i] = x})
CacheOf(r) == IF r = IndexResource THEN manifestCache ELSE definitionsCache[r]

\* C1, as stated: with one caller and no clearCache in between, each table
\* name is requested from the Gateway at most once.
C1_EachTableRequestedAtMostOnce == \A t \in Tables : fetches[t] <= 1

\* C1, amended: with one caller and no clearCache in between, the download
\* of a table name succeeds (is stored) at most once and no request for it
\* is issued once it is stored; a call that returns the table returns the
\* cached copy.  (A download that failed is requested again by a later call.)
C1_EachTableDownloadedAtMostOnce ==
  \A t \in Tables :
    /\ stored[t] + RequestsInFlight(t) <= 1
    /\ \A k \in Tasks :
         ReturnedOk(k, "loadDefinitions") /\ tasks[k].arg = t
           => /\ stored[t] = 1
              /\ tasks[k].value = definitionsCache[t]
              /\ Occurrences(tasks[k].sent, t) <= 1

\* C1 witness: a second call for a stored table returns it without a request.
C1_ServedFromCache ==
  /\ ReturnedOk(MainTask, "loadDefinitions")
  /\ tasks[MainTask].sent = << >>
  /\ fetches[tasks[MainTask].arg] = 1

\* C2: right after clearCache the index, every table and the three season
\* values are unset; and every table a later loadDefinitions returns was
\* downloaded after it, every season a later getter returns was selected
\* after it.
C2_ClearCacheResetsAll ==
  /\ lastStep[1] = "clearCache"
       => /\ IsNull(manifestCache)
          /\ \A t \in Tables : IsNull(definitionsCache[t])
          /\ IsNull(currentSeasonHash)
          /\ IsNull(currentSeasonNumber)
          /\ IsNull(currentSeasonName)
  /\ \A k \in Tasks :
       /\ ReturnedOk(k, "loadDefinitions")
            => stored[tasks[k].arg] = 1 /\ stored[IndexResource] = 1
       /\ \A op \in SeasonGetters :
            ReturnedOk(k, op) => selections = 1 /\ stored[SeasonTable] = 1

\* C2 witness: clearCache has just run after a season had been resolved.
C2_ClearedAfterUse ==
  /\ lastStep[1] = "clearCache"
  /\ tasks[MainTask].state = "done"
  /\ tasks[MainTask].op = "getCurrentSeasonName"
  /\ tasks[MainTask].status = "ok"

\* C3: when loadDefinitions calls for one table name interleave on a cold
\* cache, at most one request for that name (and for the index) is in
\* flight and the name is requested once.
C3_OneFetchInFlightPerName ==
  \A r \in Resources : RequestsInFlight(r) <= 1 /\ fetches[r] <= 1

\* C4: during a run of the export driver at most one Gateway request is in
\* flight, and the driver has at most one call pending: each call settles
\* before the next is made.
C4_OneRequestAtATime ==
  /\ TotalInFlight <= 1
  /\ \A k \in Tasks : Cardinality(tasks[k].calls) <= 1

\* C4 witness: the driver is in enrichItems, waiting for the perk table.
C4_PerkDownloadInFlight ==
  /\ tasks[MainTask].op = "exportBuildCraftingData"
  /\ \E f \in tasks[MainTask].calls : f.pc = "awaitTable" /\ f.table = PerkTable
  /\ TotalInFlight = 1

\* C5: between two clearCache calls a season is selected at most once, and
\* every value a season getter has returned since the last clearCache is the
\* memoized one, whatever the clock reads.
C5_SeasonMemoized ==
  /\ selections <= 1
  /\ \A rv \in returned :
       /\ rv[1] = "getCurrentSeasonHash" => rv[2] = currentSeasonHash
       /\ rv[1] = "getCurrentSeasonNumber" => rv[2] = currentSeasonNumber
       /\ rv[1] = "getCurrentSeasonName" => rv[2] = currentSeasonName

\* C5 witness: season 1 is returned at a time when season 2 is the active one.
C5_MemoReturnedAfterSeasonChange ==
  /\ ReturnedOk(MainTask, "getCurrentSeasonHash")
  /\ gateway.seasons = TwoSeasons
  /\ now >= 1
  /\ tasks[MainTask].value = Some(1)

(***************************************************************************)
(* The season sets of spec section 4.3, stated on the table the Gateway    *)
(* serves and the clock.                                                   *)
(***************************************************************************)
SeasonSet == {gateway.seasons[i] : i \in 1 .. Len(gateway.seasons)}
StartedAt(s, t) ==
  s.seasonNumber > 0 /\ (IsNull(s.startDate) \/ Val(s.startDate) <= t)
ActiveAt(s, t) ==
  StartedAt(s, t) /\ (IsNull(s.endDate) \/ Val(s.endDate) > t)
StartedNow == {s \in SeasonSet : StartedAt(s, now)}
ActiveNow == {s \in SeasonSet : ActiveAt(s, now)}
HighestOf(seasons, hash) ==
  \E s \in seasons : s.hash = hash /\ \A o \in seasons : o.seasonNumber <= s.seasonNumber

\* C6: if some season is active, getCurrentSeasonHash returns an active
\* season with the highest seasonNumber.
C6_HighestActiveSeason ==
  \A k \in Tasks :
    Returned(k) /\ tasks[k].op = "getCurrentSeasonHash" /\ ActiveNow # {}
      => /\ tasks[k].status = "ok"
         /\ HighestOf(ActiveNow, Val(tasks[k].value))
         /\ currentSeasonHash = tasks[k].value

\* C6 witness: season 1 has ended, season 2 is open-ended: 2 is returned.
C6_OpenEndedBeatsEnded ==
  /\ gateway.seasons = << Season(1, 1, Some(0), Some(1), DisplayName(1)),
                          Season(2, 2, Some(1), Null, DisplayName(2)) >>
  /\ now = 1
  /\ ReturnedOk(MainTask, "getCurrentSeasonHash")
  /\ tasks[MainTask].value = Some(2)

\* C7: if no season is active but some season with seasonNumber > 0 has
\* started, getCurrentSeasonHash does not throw and returns a started
\* season with the highest seasonNumber.
C7_FallbackHighestStarted ==
  \A k \in Tasks :
    Returned(k) /\ tasks[k].op = "getCurrentSeasonHash"
                /\ ActiveNow = {} /\ StartedNow # {}
      => /\ tasks[k].status = "ok"
         /\ HighestOf(StartedNow, Val(tasks[k].value))
         /\ currentSeasonHash = tasks[k].value

\* C7 witness: both seasons have ended; the one with the higher number is
\* returned.
C7_AllSeasonsEnded ==
  /\ ReturnedOk(MainTask, "getCurrentSeasonHash")
  /\ Len(gateway.seasons) = 2
  /\ \A s \in SeasonSet : StartedAt(s, now) /\ ~ActiveAt(s, now)
  /\ gateway.seasons[1].seasonNumber > gateway.seasons[2].seasonNumber
  /\ tasks[MainTask].value = Some(1)

\* C8: if no season with seasonNumber > 0 has started, getCurrentSeasonHash
\* throws the season-resolution error to its caller and hash, number and
\* name stay unset.
C8_NoSeasonThrows ==
  \A k \in Tasks :
    Returned(k) /\ tasks[k].op = "getCurrentSeasonHash" /\ StartedNow = {}
      => /\ tasks[k].status = SeasonResolutionError
         /\ IsNull(currentSeasonHash)
         /\ IsNull(currentSeasonNumber)
         /\ IsNull(currentSeasonName)
         /\ selections = 0

\* C8 witness: the call threw although the table holds a season that has
\* not started yet and one whose seasonNumber is 0.
C8_ThrewOnUnstartedSeasons ==
  /\ Threw(MainTask, "getCurrentSeasonHash", SeasonResolutionError)
  /\ Len(gateway.seasons) = 2
  /\ gateway.seasons[1].seasonNumber = 0
  /\ gateway.seasons[2].seasonNumber > 0

\* C9: a call that looks up, in the index it obtained, a table name (or
\* locale) the index lacks throws the not-found error to its caller, and no
\* download of that name is ever requested.
IndexLacks(t) == ~gateway.index.en \/ t \notin gateway.index.paths
TableAskedBy(task) == IF task.op = "loadDefinitions" THEN task.arg ELSE SeasonTable
C9_AbsentTableNotFound ==
  /\ \A t \in Tables : IndexLacks(t) => fetches[t] = 0 /\ IsNull(definitionsCache[t])
  /\ \A k \in Tasks :
       Returned(k) /\ IndexLacks(TableAskedBy(tasks[k]))
                   /\ tasks[k].status # NetworkError
         => /\ tasks[k].status =
                 (IF gateway.index.en THEN TableNotFound ELSE LocaleNotFound)
            /\ IsNotFound(tasks[k].status)
            /\ TableAskedBy(tasks[k]) \notin
                 {tasks[k].sent[i] : i \in 1 .. Len(tasks[k].sent)}

\* C9 witness: loadDefinitions fetched the index and threw table-not-found.
C9_ThrewTableNotFound ==
  /\ Threw(MainTask, "loadDefinitions", TableNotFound)
  /\ tasks[MainTask].sent = << IndexResource >>

\* C10: a call that a failed index fetch or table download makes fail has
\* requested the failed resource once, and nothing is cached for that
\* resource; the cache only ever holds responses of successful requests,
\* so a call served without a request rests on an earlier success.
C10_FailureNotCachedNoRetry ==
  /\ \A k \in Tasks : \A r \in Resources : Occurrences(tasks[k].sent, r) <= 1
  /\ \A k \in Tasks :
       Returned(k) /\ tasks[k].status = NetworkError
         => /\ Len(tasks[k].sent) > 0
            /\ IsNull(CacheOf(tasks[k].sent[Len(tasks[k].sent)]))
  /\ \A r \in Resources : ~IsNull(CacheOf(r)) => stored[r] >= 1
  /\ \A k \in Tasks :
       ReturnedOk(k, "loadDefinitions") /\ tasks[k].sent = << >>
         => stored[tasks[k].arg] = 1

\* C10 witness: after a failed download, a later call requested the table
\* again and got it.
C10_RequestedAgainAfterFailure ==
  /\ ReturnedOk(MainTask, "loadDefinitions")
  /\ fetches[tasks[MainTask].arg] = 2
  /\ stored[tasks[MainTask].arg] = 1

(***************************************************************************)
(* The result of a pipeline run, and the buckets an item of the table      *)
(* ended in.  An enriched item is the item plus the enrichment keys.       *)
(***************************************************************************)
PipelineReturned == ReturnedOk(MainTask, "getAllBuildCraftingData")
Result == Val(tasks[MainTask].value)
TableItems == {gateway.items[i] : i \in 1 .. Len(gateway.items)}
EnrichmentKeys == {"enrichedStats", "enrichedPerks", "enrichedSockets", "enrichedDamageType"}
Original(enriched) == [k \in DOMAIN enriched \ EnrichmentKeys |-> enriched[k]]
InBucket(bucket, item) ==
  \E i \in 1 .. Len(Result[bucket]) : Original(Result[bucket][i]) = item
PrimaryBuckets == {"weapons", "armor", "armorMods", "aspects", "fragments", "abilities",
                   "artifactMods", "championMods"}
PlugBuckets == {"armorMods", "aspects", "fragments", "abilities", "artifactMods",
                "championMods"}

HasName(item) ==
  /\ ~IsNull(Prop(item, "displayProperties"))
  /\ ~IsNull(Prop(Val(Prop(item, "displayProperties")), "name"))
  /\ Val(Prop(Val(Prop(item, "displayProperties")), "name")) # EmptyString
IsRedacted(item) == Prop(item, "redacted") = Some(TRUE)
NotEquippable(item) == Prop(item, "equippable") = Some(FALSE)

\* C11: every artifact mod and every champion mod that a pipeline run
\* returns carries the identifier of the current season.
C11_SeasonalModsCarryCurrentSeason ==
  PipelineReturned =>
    \A b \in {"artifactMods", "championMods"} :
      \A i \in 1 .. Len(Result[b]) :
        Prop(Result[b][i], "seasonHash") = currentSeasonHash

\* The classifier of a plug-type bucket.
Matches(bucket, item) ==
  CASE bucket = "armorMods" -> inCategory(item, ARMOR_MODS).value
    [] bucket = "aspects" -> isAspect(item).value
    [] bucket = "fragments" -> isFragment(item).value
    [] bucket = "abilities" -> isAbility(item).value
    [] bucket = "artifactMods" -> isArtifactMod(item).value
    [] bucket = "championMods" -> isChampionMod(item).value

WeaponOnly(item) ==
  /\ ~IsNull(Prop(item, "itemCategoryHashes"))
  /\ WEAPON \in Val(Prop(item, "itemCategoryHashes"))
  /\ Val(Prop(item, "itemCategoryHashes")) \cap {ARMOR, ARMOR_MODS, SUBCLASS} = {}
  /\ IsNull(Prop(item, "plug"))
  /\ Prop(item, "itemTypeDisplayName") \in {Null, Some(txt_Auto_Rifle)}

\* C16: an item whose only signal is the weapon category is matched by the
\* weapon classifier, is in the weapon bucket exactly when it is usable (not
\* redacted, equippable not false, named), and is in no other bucket.
C16_WeaponOnlyWeapon ==
  PipelineReturned =>
    \A item \in TableItems :
      WeaponOnly(item) =>
        /\ item \in {filterByCategory(gateway.items, WEAPON).value[i] :
                       i \in 1 .. Len(filterByCategory(gateway.items, WEAPON).value)}
        /\ InBucket("weapons", item)
             <=> HasName(item) /\ ~IsRedacted(item) /\ ~NotEquippable(item)
        /\ \A b \in Buckets \ {"weapons", "damageTypes"} : ~InBucket(b, item)

\* C16 witness: a weapon-only item was returned as a weapon.
C16_WeaponReturned ==
  /\ PipelineReturned
  /\ \E item \in TableItems : WeaponOnly(item) /\ InBucket("weapons", item)

\* The plug category identifier contains the token, or the item type
\* display name is the token, whatever the case of the letters.
HasToken(item, token) ==
  \/ /\ ~IsNull(Prop(item, "plug"))
     /\ ~IsNull(Prop(Val(Prop(item, "plug")), "plugCategoryIdentifier"))
     /\ stringIncludes(
          stringToLowerCase(Val(Prop(Val(Prop(item, "plug")), "plugCategoryIdentifier"))),
          token)
  \/ /\ ~IsNull(Prop(item, "itemTypeDisplayName"))
     /\ stringToLowerCase(Val(Prop(item, "itemTypeDisplayName"))) = token
NameHas(item, token) ==
  /\ HasName(item)
  /\ stringIncludes(
       stringToLowerCase(Val(Prop(Val(Prop(item, "displayProperties")), "name"))), token)

\* C17: an item without the aspect (fragment) token in its plug category
\* identifier and item type display name is not in the aspect (fragment)
\* bucket, whatever its display name.
C17_NameNeverClassifies ==
  PipelineReturned =>
    \A item \in TableItems :
      /\ ~HasToken(item, str_aspect) => ~InBucket("aspects", item)
      /\ ~HasToken(item, str_fragment) => ~InBucket("fragments", item)

\* C17 witness: "Fragmentation Grenade" was returned as an ability and not
\* as a fragment.
C17_FragmentationGrenadeNoFragment ==
  /\ PipelineReturned
  /\ \E item \in TableItems :
       /\ NameHas(item, str_fragment)
       /\ ~HasToken(item, str_fragment)
       /\ InBucket("abilities", item)
       /\ ~InBucket("fragments", item)

\* C18: every item of the table is in at most one primary bucket of the
\* result.
C18_AtMostOnePrimaryBucket ==
  PipelineReturned =>
    \A item \in TableItems :
      Cardinality({b \in PrimaryBuckets : InBucket(b, item)}) <= 1

Applied(fn) == tasks[MainTask].state = "done" /\ tasks[MainTask].op = fn
Args == tasks[MainTask].arg
Output == Val(tasks[MainTask].value)
Select(items, P(_)) == SelectSeq(items, P)

\* C12: filterUsableItems(items, allowNonEquippable) returns, in order,
\* exactly the items that are not redacted, have a non-empty name, and are
\* equippable unless allowNonEquippable is true (false when it is omitted).
C12_UsableItemsExactly ==
  Applied("filterUsableItems") =>
    /\ tasks[MainTask].status = "ok"
    /\ Output = Select(Args.items,
                       LAMBDA item : /\ ~IsRedacted(item)
                                     /\ HasName(item)
                                     /\ \/ Args.allowNonEquippable = Some(TRUE)
                                        \/ ~NotEquippable(item))
\* the list [redacted, non-equippable, named equippable non-redacted] with
\* allowNonEquippable = false gives only the third item
C12_OnlyThirdItemKept ==
  /\ Applied("filterUsableItems")
  /\ Args.items = ThreeItems
  /\ Args.allowNonEquippable = Some(FALSE)
  /\ Output = << ThreeItems[3] >>

\* C14: filterByCurrentSeason keeps an item exactly when its seasonHash is
\* present, not zero, and equal to the season identifier it is given.
C14_CurrentSeasonItemsExactly ==
  Applied("filterByCurrentSeason") =>
    /\ tasks[MainTask].status = "ok"
    /\ Output = Select(Args.items,
                       LAMBDA item : /\ ~IsNull(Prop(item, "seasonHash"))
                                     /\ Val(Prop(item, "seasonHash")) # 0
                                     /\ Prop(item, "seasonHash") = Args.seasonHash)
\* an item without seasonHash is dropped and an item of the season is kept
C14_UnseasonedDroppedSeasonedKept ==
  /\ Applied("filterByCurrentSeason")
  /\ Args.seasonHash = Some(2)
  /\ Args.items = << [redacted |-> Null, seasonHash |-> Null],
                     [redacted |-> Null, seasonHash |-> Some(2)] >>
  /\ Output = << [redacted |-> Null, seasonHash |-> Some(2)] >>

\* The season number a table of seasons gives to a season identifier.
Numbered(seasons, h) == \E i \in 1 .. Len(seasons) : seasons[i].hash = h
NumberOf(seasons, h) ==
  seasons[CHOOSE i \in 1 .. Len(seasons) :
            /\ seasons[i].hash = h
            /\ \A j \in 1 .. Len(seasons) : seasons[j].hash = h => j <= i].seasonNumber
PassesUpTo(item) ==
  \/ IsNull(Prop(item, "seasonHash"))
  \/ Val(Prop(item, "seasonHash")) = 0
  \/ ~Numbered(Args.seasons, Val(Prop(item, "seasonHash")))
  \/ NumberOf(Args.seasons, Val(Prop(item, "seasonHash"))) <= Args.currentSeasonNumber

\* C15 as stated: filterUpToCurrentSeason keeps every item that has no season
\* identifier, or whose identifier is in no season of the map, or whose
\* season number is at most the current one, and drops the items of a later
\* season.
C15_UpToCurrentSeasonAsStated ==
  Applied("filterUpToCurrentSeason") =>
    \A i \in 1 .. Len(Args.items) :
      PassesUpTo(Args.items[i]) <=> \E j \in 1 .. Len(Output) : Output[j] = Args.items[i]
\* C15: filterUpToCurrentSeason drops every redacted item; it keeps a
\* non-redacted item exactly when the item has no season identifier (absent
\* or zero), or the identifier is in no season of the map, or the season
\* number is at most the current one.
C15_UpToCurrentSeasonUnlessRedacted ==
  Applied("filterUpToCurrentSeason") =>
    /\ tasks[MainTask].status = "ok"
    /\ Output = Select(Args.items, LAMBDA item : ~IsRedacted(item) /\ PassesUpTo(item))
\* an item of season 3 is kept when the current season number is 5
C15_SeasonThreeKeptAtFive ==
  /\ Applied("filterUpToCurrentSeason")
  /\ Args.currentSeasonNumber = 5
  /\ Len(Args.seasons) = 2
  /\ Args.items = << [redacted |-> Some(FALSE), seasonHash |-> Some(1)] >>
  /\ Output = Args.items

\* C20: the result of enrichItemWithStats and of enrichItemWithPerks has every
\* top-level key of the item it was given, with the value the item had.
C20_EnrichmentKeepsEveryKey ==
  Applied("enrichItemWithStats") \/ Applied("enrichItemWithPerks") =>
    \A k \in DOMAIN Args.item : k \in DOMAIN Output /\ Output[k] = Args.item[k]

\* The stat entries of the item given to enrichItemWithStats, by stat hash,
\* and the entries of the result.
HasStats ==
  /\ ~IsNull(Prop(Args.item, "stats"))
  /\ ~IsNull(Prop(Val(Args.item["stats"]), "stats"))
SourceStats == Val(Val(Args.item["stats"])["stats"])
EnrichedStats == Val(Output["enrichedStats"])
NumericFields == {"value", "minimum", "maximum"}

\* C21: every number of a stat entry, zero included, is in the enriched
\* entry of that stat as it is in the source: value, minimum, maximum and
\* displayMaximum.
C21_StatNumbersPassThrough ==
  Applied("enrichItemWithStats") /\ HasStats =>
    \A h \in DOMAIN SourceStats :
      /\ \A field \in NumericFields :
           ~IsNull(Prop(SourceStats[h], field)) =>
             EnrichedStats[h][field] = Val(SourceStats[h][field])
      /\ EnrichedStats[h].displayMaximum = Prop(SourceStats[h], "displayMaximum")

\* C22: enrichItemWithStats does not throw, and a stat whose hash is not in
\* the stat table gets the name Unknown_<hash>, its hash, and its value and
\* display maximum.
C22_UnknownStatNamed ==
  Applied("enrichItemWithStats") =>
    /\ tasks[MainTask].status = "ok"
    /\ HasStats =>
         \A h \in DOMAIN SourceStats : h \notin DOMAIN StatDefs =>
           /\ h \in DOMAIN EnrichedStats
           /\ EnrichedStats[h].name = << "Unknown_", h >>
           /\ EnrichedStats[h].hash = h
           /\ ~IsNull(Prop(SourceStats[h], "value")) =>
                EnrichedStats[h].value = Val(SourceStats[h]["value"])
           /\ EnrichedStats[h].displayMaximum = Prop(SourceStats[h], "displayMaximum")
\* stat 3 is not in the table; its value 5 is attached under Unknown_3
C22_StatThreeUnknown ==
  /\ Applied("enrichItemWithStats")
  /\ HasStats
  /\ DOMAIN SourceStats = {3}
  /\ SourceStats[3].value = Some(5)
  /\ EnrichedStats[3].name = << "Unknown_", 3 >>
  /\ EnrichedStats[3].value = 5

\* The perks and socket entries of the item given to enrichItemWithPerks.
SourcePerks ==
  IF IsNull(Prop(Args.item, "perks")) THEN << >> ELSE Val(Args.item["perks"])
SourceSockets ==
  IF IsNull(Prop(Args.item, "sockets")) THEN << >>
  ELSE IF IsNull(Prop(Val(Args.item["sockets"]), "socketEntries")) THEN << >>
  ELSE Val(Val(Args.item["sockets"])["socketEntries"])
InPerkTable(perk) ==
  ~IsNull(Prop(perk, "perkHash")) /\ Val(perk["perkHash"]) \in DOMAIN PerkDefs
Populated(socket) ==
  /\ ~IsNull(Prop(socket, "singleInitialItemHash"))
  /\ Val(socket["singleInitialItemHash"]) # 0

\* C23: enrichItemWithPerks does not throw; enrichedPerks has, in the order
\* of item.perks, one entry for each perk whose hash is in the perk table and
\* none for the others; enrichedSockets has, in the order of the socket
\* entries, one entry for each entry with an initial plug.
C23_PerksAndSocketsInSourceOrder ==
  Applied("enrichItemWithPerks") =>
    /\ tasks[MainTask].status = "ok"
    /\ LET found == Select(SourcePerks, InPerkTable)
           enriched == Val(Output["enrichedPerks"])
       IN  /\ Len(enriched) = Len(found)
           /\ \A i \in 1 .. Len(found) : enriched[i].hash = found[i].perkHash
    /\ LET populated == Select(SourceSockets, Populated)
           enriched == Val(Output["enrichedSockets"])
       IN  /\ Len(enriched) = Len(populated)
           /\ \A i \in 1 .. Len(populated) :
                /\ enriched[i].socketTypeHash = populated[i].socketTypeHash
                /\ enriched[i].singleInitialItemHash = populated[i].singleInitialItemHash
\* perks 2 and 1, in that order, give entries 2 and 1
C23_PerkTwoBeforePerkOne ==
  /\ Applied("enrichItemWithPerks")
  /\ SourcePerks = << [perkHash |-> Some(2)], [perkHash |-> Some(1)] >>
  /\ Len(Val(Output["enrichedPerks"])) = 2
  /\ Val(Output["enrichedPerks"])[1].hash = Some(2)
  /\ Val(Output["enrichedPerks"])[2].hash = Some(1)

\* The text of a stat hash given as a number or as a string.
HashText(statHash) ==
  CASE statHash = << "number", 144602215 >> -> txt_144602215
    [] statHash = << "number", 392767087 >> -> txt_392767087
    [] statHash = << "number", 7 >> -> txt_7
    [] statHash = << "number", 0 >> -> txt_0
    [] OTHER -> statHash
\* The stat table has the hash, with a name that is not empty.
NamedInTable(key) ==
  /\ ~IsNull(Args.statDefs)
  /\ key \in DOMAIN Val(Args.statDefs)
  /\ ~IsNull(Val(Args.statDefs)[key].displayProperties)
  /\ ~IsNull(Val(Val(Args.statDefs)[key].displayProperties).name)
  /\ Val(Val(Val(Args.statDefs)[key].displayProperties).name) # EmptyString

\* C24: resolveStatName returns the stat table's name for the hash when the
\* table has one that is not empty, else the STAT_HASHES name when there is
\* one, else Stat_<hash>; a number and the string of its digits give the
\* same result.
C24_StatNameFallbackChain ==
  Applied("resolveStatName") =>
    /\ tasks[MainTask].status = "ok"
    /\ LET key == HashText(Args.statHash)
       IN  Output =
             IF NamedInTable(key)
             THEN Val(Val(Val(Args.statDefs)[key].displayProperties).name)
             ELSE IF key \in DOMAIN STAT_HASHES THEN STAT_HASHES[key]
             ELSE << "S", "t", "a", "t", "_" >> \o key
\* the number 144602215, in a table that has the hash without a name,
\* resolves to the hardcoded Intellect
C24_NumberFallsBackToHardcoded ==
  /\ Applied("resolveStatName")
  /\ Args.statHash = << "number", 144602215 >>
  /\ ~IsNull(Args.statDefs)
  /\ txt_144602215 \in DOMAIN Val(Args.statDefs)
  /\ ~NamedInTable(txt_144602215)
  /\ Output = << "I", "n", "t", "e", "l", "l", "e", "c", "t" >>

\* The command line has the flag.
HasFlag(flag) == \E i \in 1 .. Len(Args.args) : Args.args[i] = flag

\* C25: with --excel and --excel-master on the command line and none of
\* --json-only, --csv-only, --excel-only, the options enable JSON, CSV, the
\* separate Excel files and the master Excel file.
C25_ExcelAndMasterEnableAll ==
  /\ Applied("main")
  /\ HasFlag(flag_excel)
  /\ HasFlag(flag_excel_master)
  /\ ~HasFlag(flag_json_only) /\ ~HasFlag(flag_csv_only) /\ ~HasFlag(flag_excel_only)
  => Output.options = [json |-> TRUE, csv |-> TRUE, excel |-> TRUE, excelMaster |-> TRUE]

\* a is b with some elements left out.
RECURSIVE IsSubList(_, _)
IsSubList(a, b) ==
  IF Len(a) = 0 THEN TRUE
  ELSE IF Len(b) = 0 THEN FALSE
  ELSE IF Head(a) = Head(b) THEN IsSubList(Tail(a), Tail(b))
  ELSE IsSubList(a, Tail(b))
Allowed == Args.allowNonEquippable = Some(TRUE)

\* C29: the result of filterUsableItems is a sub-list of its input (the kept
\* items in their order), filtering the result again with the same flag
\* gives the result back, and the result with the flag false is a sub-list
\* of the result with the flag true.
C29_UsableFilterIdempotentMonotone ==
  Applied("filterUsableItems") =>
    /\ IsSubList(Output, Args.items)
    /\ filterUsableItems(Output, Allowed) = Ok(Output)
    /\ IsSubList(filterUsableItems(Args.items, FALSE).value,
                 filterUsableItems(Args.items, TRUE).value)
\* of a non-equippable and an equippable item the call without the flag
\* returns the second, and with the flag both
C29_StrictResultInsideLenient ==
  /\ Applied("filterUsableItems")
  /\ IsNull(Args.allowNonEquippable)
  /\ Len(Args.items) = 2
  /\ NotEquippable(Args.items[1])
  /\ Output = << Args.items[2] >>
  /\ filterUsableItems(Args.items, TRUE).value = Args.items


\* C26: in every state the three memoized season values are all unset, or
\* they are the hash, the seasonNumber and the name of one season record of
\* the table, whatever calls have returned, thrown or cleared the cache.
C26_SeasonMemoOfOneRecord ==
  \/ IsNull(currentSeasonHash) /\ IsNull(currentSeasonNumber) /\ IsNull(currentSeasonName)
  \/ \E s \in SeasonSet :
       /\ currentSeasonHash = Some(s.hash)
       /\ currentSeasonNumber = Some(s.seasonNumber)
       /\ currentSeasonName = (IF ~IsNull(s.name) THEN s.name ELSE SeasonN(s.seasonNumber))

\* C26 witness: after a call that threw, getCurrentSeasonNumber returns and
\* the three values are those of one season.
C26_MemoSetAfterFailedCall ==
  /\ ReturnedOk(MainTask, "getCurrentSeasonNumber")
  /\ failures > 0
  /\ ~IsNull(currentSeasonHash)
  /\ ~IsNull(currentSeasonNumber)
  /\ ~IsNull(currentSeasonName)

\* C27: an export run that returns without error has made exactly six
\* Gateway requests: the index, then the season, item, damage-type, stat and
\* perk tables, once each and in this order.
C27_SixGatewayRequestsInOrder ==
  ReturnedOk(MainTask, "exportBuildCraftingData")
    => /\ tasks[MainTask].sent
            = << IndexResource, SeasonTable, ItemTable, DamageTable, StatTable, PerkTable >>
       /\ \A r \in Resources : fetches[r] = 1

\* C27 witness: an export run returned without error after its six requests.
C27_ExportReturnedAfterSixRequests ==
  /\ ReturnedOk(MainTask, "exportBuildCraftingData")
  /\ Len(tasks[MainTask].sent) = 6
  /\ fetches[PerkTable] = 1

CategoryTables == {ItemTable, StatTable, PerkTable, DamageTable}
RequestedBy(k) == {tasks[k].sent[i] : i \in 1 .. Len(tasks[k].sent)}

\* C28: the export run requests the item, stat, perk or damage-type table
\* only once the season is resolved; a run whose season resolution fails
\* has requested none of these tables and returns no category result.
C28_SeasonBeforeCategories ==
  /\ tasks[MainTask].op = "exportBuildCraftingData"
       /\ RequestedBy(MainTask) \cap CategoryTables # {}
       => ~IsNull(currentSeasonHash)
  /\ Threw(MainTask, "exportBuildCraftingData", SeasonResolutionError)
       => /\ RequestedBy(MainTask) \cap CategoryTables = {}
          /\ \A t \in CategoryTables : fetches[t] = 0
          /\ IsNull(tasks[MainTask].value)
          /\ tasks[MainTask].data = NoData

\* C28 witness: the run threw the season-resolution error after it had
\* requested the index and the season table only.
C28_RunAbortedAtSeason ==
  /\ Threw(MainTask, "exportBuildCraftingData", SeasonResolutionError)
  /\ tasks[MainTask].sent = << IndexResource, SeasonTable >>

\* C30: the season a successful getCurrentSeasonHash returns has a
\* seasonNumber above 0 and a start date that is absent or not after now.
C30_SelectedSeasonHasStarted ==
  ReturnedOk(MainTask, "getCurrentSeasonHash")
    => /\ \E sel \in SeasonSet : Some(sel.hash) = tasks[MainTask].value
       /\ \A sel \in SeasonSet :
            Some(sel.hash) = tasks[MainTask].value
              => /\ sel.seasonNumber > 0
                 /\ IsNull(sel.startDate) \/ Val(sel.startDate) <= now

\* C30 witness: the season with the highest seasonNumber starts after now
\* and the call returns the other season.
C30_UnstartedHighestPassedOver ==
  /\ ReturnedOk(MainTask, "getCurrentSeasonHash")
  /\ \E s \in SeasonSet : \E u \in SeasonSet :
       /\ Some(s.hash) = tasks[MainTask].value
       /\ u.seasonNumber > s.seasonNumber
       /\ ~IsNull(u.startDate)
       /\ Val(u.startDate) > now

====
